---------------------------- MODULE Spec2Model ----------------------------
(***************************************************************************)
(* DVB-S/S2 blindscan (linuxdvb_blindscan): one blindscan session, its      *)
(* worker thread and the API entry points that run on caller threads.      *)
(*                                                                         *)
(* Threads interleave at every access to memory they share.  The worker    *)
(* never takes bs_lock and the API entry points take only blindscan_mutex  *)
(* (around the registry walk), so every field of the session is shared     *)
(* without protection; a step of the model is one such access together     *)
(* with the thread-local computation that precedes it.                     *)
(***************************************************************************)
EXTENDS Integers, Sequences, FiniteSets, TLC

(***************************************************************************)
(* Program constants                                                       *)
(***************************************************************************)
BLINDSCAN_LNB_SLOF == 11700000
BLINDSCAN_LNB_LOF_LOW == 9750000
BLINDSCAN_LNB_LOF_HIGH == 10600000
DVB_POLARISATION_HORIZONTAL == 0
DVB_POLARISATION_VERTICAL == 1
POL_BOTH == -1
step_size == 50000
dedupe_thresh == 2000
MAX_DRIVER_PEAKS == 512
NEUMO_WAIT_POLLS == 10
MIN_DETECT_POINTS == 100
PEAK_THRESHOLD == 1000
min_valley_depth == 400
half_win == 10
EDGE_DROP == 600
SR_PER_KHZ == 800
SR_FLOOR_TEST == 1000000
SR_MIN == 2000000
SR_MAX == 45000000

NULL == "NULL"

\* A spectrum buffer pointer: NULL_SD, or Sd(points) for an allocated buffer.
NULL_SD == << >>
Sd(points) == << points >>
PointsOf(sd) == sd[1]

(***************************************************************************)
(* The environment the model runs in: the Unicable SCR output frequency,   *)
(* the carriers on the satellite and the muxes already in the network.     *)
(***************************************************************************)
SCR_FREQ_KHZ == 1210000
FLOOR_LEVEL_MDB == -70000

Carrier(f, sr, snr, level) == [freq |-> f, symbol_rate |-> sr, snr |-> snr, level |-> level]

\* Horizontal carriers, ascending; levels and snr in 0.001 dB as the driver reports them.
Carriers ==
  << Carrier(11662000, 22000000, 12005, -40005),
     Carrier(11663000, 22000000, 13000, -39000),
     Carrier(11740000, 27500000, 11000, -41000) >>

\* A mux of the network: its tuning record, its scan result, its stream type, and (as
\* history) whether a create call of the session made it.
Mux(f, sr, ro, pol, res) ==
  [ freq |-> f, symbol_rate |-> sr, rolloff |-> ro, polarisation |-> pol,
    scan_result |-> res, delsys |-> "DVBS2", modulation |-> "AUTO", fec |-> "AUTO",
    pilot |-> "AUTO", stream_id |-> -1, pls_mode |-> "ROOT", pls_code |-> 1,
    mm_type |-> "MM_TYPE_TS", by_create |-> FALSE ]

MuxFailH == Mux(11662250, 27500000, "35", DVB_POLARISATION_HORIZONTAL, "FAIL")
MuxOkH   == Mux(11663250, 27500000, "AUTO", DVB_POLARISATION_HORIZONTAL, "OK")
MuxOkV   == Mux(11662250, 27500000, "20", DVB_POLARISATION_VERTICAL, "OK")
MuxOkHighH == Mux(11740250, 30000000, "25", DVB_POLARISATION_HORIZONTAL, "OK")

\* mn_muxes of the target network when the session starts.  In the first the low-band
\* carriers lie within a failed horizontal mux only and the high-band carrier within a
\* verified one; in the second the low-band carriers lie within a verified and a failed
\* mux and the high-band carrier within none.
NetworkChoices == { <<MuxOkV, MuxFailH, MuxOkHighH>>, <<MuxOkH, MuxFailH>> }

\* lfe_fe_fd > 0 and lfe_neumo_supported; the worker tests the descriptor first.
FrontendOk == [fd_open |-> TRUE, neumo |-> TRUE]
FrontendClosed == [fd_open |-> FALSE, neumo |-> TRUE]
FrontendNoNeumo == [fd_open |-> TRUE, neumo |-> FALSE]

\* The arguments of a start: frontend, polarisation, <<start_freq, end_freq>> in kHz,
\* Unicable or direct LNB, peak_detect option.
Config(fe, pol, range, unicable, peak_detect) ==
  [ frontend |-> fe, pol |-> pol, range |-> range, unicable |-> unicable,
    peak_detect |-> peak_detect ]

Configs ==
  { Config(FrontendClosed, DVB_POLARISATION_HORIZONTAL, <<11650000, 11760000>>, FALSE, 0),
    Config(FrontendNoNeumo, DVB_POLARISATION_HORIZONTAL, <<11650000, 11760000>>, TRUE, 0),
    \* both polarisations, both bands, direct LNB: four slots
    Config(FrontendOk, POL_BOTH, <<11650000, 11760000>>, FALSE, 0),
    \* one slot of two Unicable slices
    Config(FrontendOk, DVB_POLARISATION_HORIZONTAL, <<11600000, 11700000>>, TRUE, 1),
    \* two slots; the high band has two slices, the last re-centred
    Config(FrontendOk, DVB_POLARISATION_HORIZONTAL, <<11650000, 11760000>>, TRUE, 2),
    \* a polarisation without carriers
    Config(FrontendOk, DVB_POLARISATION_VERTICAL, <<11600000, 11700000>>, FALSE, 2),
    \* empty range on the band split, and inside the low band
    Config(FrontendOk, DVB_POLARISATION_HORIZONTAL, <<11700000, 11700000>>, FALSE, 0),
    Config(FrontendOk, DVB_POLARISATION_HORIZONTAL, <<11650000, 11650000>>, TRUE, 0),
    Config(FrontendOk, DVB_POLARISATION_HORIZONTAL, <<11650000, 11650000>>, FALSE, 0),
    \* a Unicable range of 80 MHz: two slices, the second not re-centred
    Config(FrontendOk, DVB_POLARISATION_HORIZONTAL, <<11600000, 11680000>>, TRUE, 0) }

(***************************************************************************)
(* Arithmetic as C does it                                                 *)
(***************************************************************************)
\* Integer division truncating toward zero.
CDiv(a, b) == IF a >= 0 THEN a \div b ELSE -((-a) \div b)

Abs(x) == IF x < 0 THEN -x ELSE x

Min2(a, b) == IF a < b THEN a ELSE b

SetMin(S) == CHOOSE x \in S : \A y \in S : x <= y

(***************************************************************************)
(* Header helpers                                                          *)
(***************************************************************************)
blindscan_band_for_freq(frequency) == IF frequency >= BLINDSCAN_LNB_SLOF THEN 1 ELSE 0

LofOf(band) == IF band = 0 THEN BLINDSCAN_LNB_LOF_LOW ELSE BLINDSCAN_LNB_LOF_HIGH

blindscan_driver_freq(frequency, band) == frequency - LofOf(band)

blindscan_transponder_freq(driver_freq, band) == driver_freq + LofOf(band)

(***************************************************************************)
(* State                                                                   *)
(***************************************************************************)
VARIABLES
  cfg,                \* the arguments of linuxdvb_blindscan_start and the frontend's state
  mn_muxes,           \* bs_network->mn_muxes
  sessions,           \* blindscan_sessions: TRUE iff the session is linked in the registry
  blindscan_mutex,    \* holder of the registry mutex, or NULL
  bs_alloc,           \* "none" before start, "live" while allocated, "freed" after free(bs)
  bs_state, bs_progress, bs_should_stop, bs_thread_running,
  bs_peaks,           \* LIST of blindscan_peak, head first
  bs_peak_count,
  bs_spectrum,        \* bs_spectrum_{h,v}_{low,high}: <<pol_is_v, band>> -> NULL_SD or Sd(points)
  w,                  \* the worker thread: program counter and locals
  notifications,      \* what notify_by_msg("blindscan", ...) was called with, in order
  joinid,             \* the worker thread's join state: NULL, or the thread that joins it
  rel,                \* the callers of linuxdvb_blindscan_release: program counters
  done_pc,            \* linuxdvb_blindscan_done (shutdown): program counter
  cancel_pc,          \* the caller of linuxdvb_blindscan_cancel
  status_pc, status_resp,              \* the caller of linuxdvb_blindscan_status
  peaks_pc, peaks_list, peaks_resp,    \* the caller of linuxdvb_blindscan_peaks
  pre,                \* the caller of linuxdvb_blindscan_prescan: position, locals, result
  crt,                \* the caller of linuxdvb_blindscan_create_muxes_selected
  bs_muxes_created,
  fn,                 \* a function examined on its own: its arguments and its result
  \* History variables: they record what happened and are never read by the program.
  worker_uaf,         \* the worker accessed the session after free(bs)
  stop_before_final,  \* bs_should_stop was set before the worker's check after the loops
  inserted,           \* number of candidates the worker has linked so far
  remove_count,       \* how often LIST_REMOVE(bs, bs_link) ran
  free_count,         \* how often free(bs) ran
  api_uaf             \* an API entry point accessed the session after free(bs)

\* What the worker, cancel, release, shutdown, status and peaks never write.
envvars == << fn, cfg, mn_muxes, pre, crt, bs_muxes_created >>
regvars == << sessions, blindscan_mutex, bs_alloc >>
bsvars == << bs_state, bs_progress, bs_should_stop, bs_thread_running, bs_peaks,
             bs_peak_count, bs_spectrum >>
histvars == << worker_uaf, stop_before_final, inserted >>
lifevars == << joinid, rel, done_pc, remove_count, free_count >>
apivars == << cancel_pc, status_pc, status_resp, peaks_pc, peaks_list, peaks_resp, api_uaf >>

vars == << envvars, regvars, bsvars, w, notifications, histvars, lifevars, apivars >>
\* What the examination of a function on its own leaves alone.
progvars == << cfg, mn_muxes, pre, crt, bs_muxes_created, regvars, bsvars, w, notifications,
               histvars, lifevars, apivars >>

Releasers == { "r1", "r2" }

\* No create call is in progress; prev is history: the list of the previous call and
\* whether all its dvb_mux_create0 calls succeeded.
CreateIdle(prev, calls) ==
  [ pc |-> "idle", selected_peaks |-> << >>, created |-> 0, prev |-> prev,
    calls |-> calls ]

\* The create calls a client makes in one run.
MaxCreateCalls == 2

\* No prescan call is in progress.
PrescanIdle ==
  [ pc |-> "idle", frequency |-> 0, pol |-> "H", peak |-> 0, est_symbol_rate |-> 0,
    driver_freq |-> 0, search_range |-> 0, elapsed |-> 0, locked |-> FALSE,
    raw_stream_id |-> 0,
    full_lock_seen |-> FALSE,    \* history: an event with carrier lock and sync was read
    lock_only_seen |-> FALSE,    \* history: an event with carrier lock, without sync
    waited |-> FALSE,            \* history: the tune was submitted and the wait begun
    result |-> [ locked |-> FALSE, error |-> "", has_params |-> FALSE, frequency |-> 0,
                 symbol_rate |-> 0, stream_id |-> 0, is_gse |-> FALSE ] ]

Slots == {0, 1} \X {0, 1}

WorkerInit ==
  [ pc |-> "none", pi |-> 0, bi |-> 0, current_scan |-> 0, step |-> 0, total_steps |-> 0,
    count |-> 0, sd |-> NULL_SD, driver_peaks |-> <<>>, i |-> 0, center_freq |-> 0,
    failed |-> 0 ]      \* history: the slots left by "continue" after a failure

\* No session exists yet and no client has called.
InitSession ==
  /\ sessions = FALSE
  /\ blindscan_mutex = NULL
  /\ bs_alloc = "none"
  /\ bs_state = "idle"
  /\ bs_progress = 0
  /\ bs_should_stop = FALSE
  /\ bs_thread_running = FALSE
  /\ bs_peaks = <<>>
  /\ bs_peak_count = 0
  /\ bs_spectrum = [s \in Slots |-> NULL_SD]
  /\ w = WorkerInit
  /\ notifications = <<>>
  /\ worker_uaf = FALSE
  /\ stop_before_final = FALSE
  /\ inserted = 0
  /\ joinid = NULL
  /\ rel = [r \in Releasers |-> "idle"]
  /\ done_pc = "idle"
  /\ remove_count = 0
  /\ free_count = 0
  /\ cancel_pc = "idle"
  /\ status_pc = "idle"
  /\ status_resp = NULL
  /\ peaks_pc = "idle"
  /\ peaks_list = <<>>
  /\ peaks_resp = NULL
  /\ api_uaf = FALSE
  /\ pre = PrescanIdle
  /\ crt = CreateIdle([ selected_peaks |-> << >>, clean |-> FALSE, now_clean |-> TRUE ], 0)
  /\ bs_muxes_created = 0

\* No function is examined on its own.
FnNone == [ pc |-> "none" ]

Init ==
  /\ cfg \in Configs
  /\ mn_muxes \in NetworkChoices
  /\ InitSession
  /\ fn = FnNone

bs_start_freq == cfg.range[1]
bs_end_freq == cfg.range[2]

(***************************************************************************)
(* linuxdvb_blindscan_start                                                *)
(***************************************************************************)
linuxdvb_blindscan_start ==
  /\ bs_alloc = "none"
  /\ blindscan_mutex = NULL
  /\ bs_alloc' = "live"
  /\ bs_state' = "acquiring"
  /\ sessions' = TRUE
  /\ bs_thread_running' = TRUE
  /\ w' = [w EXCEPT !.pc = "start"]
  /\ UNCHANGED << envvars, blindscan_mutex, bs_progress, bs_should_stop, bs_peaks,
                  bs_peak_count, bs_spectrum, notifications, histvars, lifevars, apivars >>

(***************************************************************************)
(* What the frontend driver returns                                        *)
(***************************************************************************)
\* Samples of one acquisition over the driver window [lo, hi] (driver kHz): the two edges
\* and the middle of the window, at the noise floor.
DriverSpectrumOutcomes(lo, hi) ==
  { << [freq |-> lo, level |-> FLOOR_LEVEL_MDB],
       [freq |-> (lo + hi) \div 2, level |-> FLOOR_LEVEL_MDB],
       [freq |-> hi, level |-> FLOOR_LEVEL_MDB] >> }

\* The carriers of polarisation pol_is_v whose transponder frequency lies in [lo, hi].
CarriersIn(pol_is_v, lo, hi) ==
  IF pol_is_v = 1 THEN <<>>
  ELSE LET InWindow(c) == c.freq >= lo /\ c.freq <= hi
       IN SelectSeq(Carriers, InWindow)

\* The hardware candidate lists the driver may report for a window of transponder
\* frequencies: the carriers inside it, ascending, or none.
DriverCandidateOutcomes(pol_is_v, lo, hi) == { <<>>, CarriersIn(pol_is_v, lo, hi) }

(***************************************************************************)
(* blindscan_worker: the scan plan                                         *)
(***************************************************************************)
pol_list ==
  (IF cfg.pol = POL_BOTH \/ cfg.pol = DVB_POLARISATION_HORIZONTAL THEN <<0>> ELSE <<>>)
  \o (IF cfg.pol = POL_BOTH \/ cfg.pol = DVB_POLARISATION_VERTICAL THEN <<1>> ELSE <<>>)

\* The high band is planned as soon as the range ends on the band split.
band_list_SplitInHigh ==
  (IF bs_start_freq < BLINDSCAN_LNB_SLOF THEN <<0>> ELSE <<>>)
  \o (IF bs_end_freq >= BLINDSCAN_LNB_SLOF THEN <<1>> ELSE <<>>)

band_list ==
  (IF bs_start_freq < BLINDSCAN_LNB_SLOF THEN <<0>> ELSE <<>>)
  \o (IF bs_end_freq > BLINDSCAN_LNB_SLOF THEN <<1>> ELSE <<>>)

pol_count == Len(pol_list)
band_count == Len(band_list)
total_scans == pol_count * band_count

\* The slot the worker is in (pi, bi count from 0 as in the code).
pol_is_v == pol_list[w.pi + 1]
band == band_list[w.bi + 1]

\* The user's range clipped to a band.
BandStart(b) ==
  IF b = 1 /\ bs_start_freq < BLINDSCAN_LNB_SLOF THEN BLINDSCAN_LNB_SLOF ELSE bs_start_freq

BandEnd(b) ==
  IF b = 0 /\ bs_end_freq > BLINDSCAN_LNB_SLOF THEN BLINDSCAN_LNB_SLOF ELSE bs_end_freq

\* A slot progress on the scale 0..100 instead of 0..50.
SlotProgress_FullScale(current_scan) == (current_scan * 100) \div total_scans

\* bs_progress at the head of a slot: 0-50% for the spectrum.
SlotProgress(current_scan) == (current_scan * 50) \div total_scans

SliceProgress(current_scan, step, total_steps) ==
  (((current_scan - 1) * 50) \div total_scans)
  + ((((step + 1) * 50) \div total_steps) \div total_scans)

\* A slice count that leaves the incomplete last slice out.
UnicableTotalSteps_RoundDown(b) == (BandEnd(b) - BandStart(b)) \div step_size

UnicableTotalSteps(b) == ((BandEnd(b) - BandStart(b)) + step_size - 1) \div step_size

SliceCenter(b, step) ==
  LET c == BandStart(b) + (step * step_size) + (step_size \div 2)
  IN IF c > BandEnd(b) THEN BandEnd(b) - (step_size \div 2) ELSE c

\* The worker touches the session: a use after free if release or shutdown freed it.
Touch == worker_uaf' = (worker_uaf \/ bs_alloc = "freed")

(***************************************************************************)
(* blindscan_detect_peaks (software peak detection); indices count from 0  *)
(***************************************************************************)
SetMax(S) == CHOOSE x \in S : \A y \in S : x >= y

LevelAt(points, i) == points[i + 1].level

FreqAt(points, i) == points[i + 1].frequency

\* Step 2: local maxima at or above the threshold, window of +/- half_win samples.
IsLocalMax(points, i, peak_threshold) ==
  LET lvl == LevelAt(points, i)
  IN /\ ~(lvl < peak_threshold)
     /\ \A j \in (i - half_win)..(i + half_win) : j = i \/ ~(LevelAt(points, j) > lvl)

\* The sweep from sample i on: it passes over the samples that are no local maximum,
\* takes the first that is one and goes on half_win + 1 samples after it.
RECURSIVE FindCandidates(_, _, _, _)
FindCandidates(points, i, peak_threshold, candidates) ==
  IF ~(i < Len(points) - half_win /\ Len(candidates) < MAX_DRIVER_PEAKS) THEN candidates
  ELSE LET maxima == { k \in i..(Len(points) - half_win - 1) :
                         IsLocalMax(points, k, peak_threshold) }
       IN IF maxima = {} THEN candidates
          ELSE LET k == SetMin(maxima)
               IN FindCandidates(points, k + half_win + 1, peak_threshold,
                                 Append(candidates,
                                        [idx |-> k, level |-> LevelAt(points, k)]))

\* The depth is measured from the stronger of the two peaks.
ValleyDepth_FromStronger(points, prev, curr) ==
  LET weaker_peak == Min2(prev.level, curr.level)
      stronger_peak == IF prev.level > curr.level THEN prev.level ELSE curr.level
      valley_level ==
        SetMin({weaker_peak}
               \cup { LevelAt(points, j) : j \in (prev.idx + 1)..(curr.idx - 1) })
  IN stronger_peak - valley_level

\* Valley depth = weaker peak level - valley level, the valley being the lowest sample
\* strictly between the two (and no higher than the weaker peak).
ValleyDepth(points, prev, curr) ==
  LET weaker_peak == Min2(prev.level, curr.level)
      valley_level ==
        SetMin({weaker_peak}
               \cup { LevelAt(points, j) : j \in (prev.idx + 1)..(curr.idx - 1) })
  IN weaker_peak - valley_level

\* The later of the two candidates is kept.
MergeKeep_Later(prev, curr) == curr

\* No significant valley: keep the stronger one.
MergeKeep(prev, curr) == IF curr.level > prev.level THEN curr ELSE prev

\* Step 3: valley-based merging, left to right.
RECURSIVE ValleyMerge(_, _, _)
ValleyMerge(points, candidates, merged) ==
  IF candidates = <<>> THEN merged
  ELSE LET prev == merged[Len(merged)]
           curr == Head(candidates)
       IN IF ValleyDepth(points, prev, curr) >= min_valley_depth
          THEN ValleyMerge(points, Tail(candidates), Append(merged, curr))
          ELSE ValleyMerge(points, Tail(candidates),
                           [merged EXCEPT ![Len(merged)] = MergeKeep(prev, curr)])

\* Step 4: the -6 dB edges around a peak.
\* The left edge is the first sample at or below the edge level.
LeftEdge_NotAbove(points, peak_idx, edge_level) ==
  LET below == { j \in 1..peak_idx : LevelAt(points, j) <= edge_level }
  IN IF peak_idx = 0 THEN 0 ELSE IF below = {} THEN 1 ELSE SetMax(below)

LeftEdge(points, peak_idx, edge_level) ==
  LET below == { j \in 1..peak_idx : LevelAt(points, j) < edge_level }
  IN IF peak_idx = 0 THEN 0 ELSE IF below = {} THEN 1 ELSE SetMax(below)

RightEdge(points, peak_idx, edge_level) ==
  LET below == { j \in peak_idx..(Len(points) - 1) : LevelAt(points, j) < edge_level }
  IN IF below = {} THEN Len(points) - 1 ELSE SetMin(below)

SymbolRateFromBandwidth(bandwidth_khz) ==
  LET raw == bandwidth_khz * SR_PER_KHZ   \* below 2^32 for any bandwidth an LNB band holds
      floored == IF raw < SR_FLOOR_TEST THEN SR_MIN ELSE raw
  IN IF floored > SR_MAX THEN SR_MAX ELSE floored

PeakFromCandidate(points, c, min_level) ==
  LET left_idx == LeftEdge(points, c.idx, c.level - EDGE_DROP)
      right_idx == RightEdge(points, c.idx, c.level - EDGE_DROP)
      bandwidth_khz == FreqAt(points, right_idx) - FreqAt(points, left_idx)
  IN [ frequency |-> (FreqAt(points, left_idx) + FreqAt(points, right_idx)) \div 2,
       symbol_rate |-> SymbolRateFromBandwidth(bandwidth_khz),
       snr |-> c.level - min_level,
       level |-> c.level ]

\* Step 1: the noise floor is the lowest sample of the spectrum.
DetectMinLevel(points) == SetMin({ points[k].level : k \in 1..Len(points) })

DetectCandidates(points, threshold_db) ==
  FindCandidates(points, half_win, DetectMinLevel(points) + threshold_db, <<>>)

DetectMerged(points, threshold_db) ==
  LET candidates == DetectCandidates(points, threshold_db)
  IN IF candidates = <<>> THEN <<>>
     ELSE ValleyMerge(points, Tail(candidates), <<Head(candidates)>>)

blindscan_detect_peaks(points, max_peaks, threshold_db) ==
  IF Len(points) < MIN_DETECT_POINTS THEN <<>>
  ELSE LET min_level == DetectMinLevel(points)
           merged == DetectMerged(points, threshold_db)
           num_peaks == Min2(Len(merged), max_peaks)
       IN [ k \in 1..num_peaks |-> PeakFromCandidate(points, merged[k], min_level) ]

(***************************************************************************)
(* Deduplication of hardware candidates (blindscan_worker)                 *)
(***************************************************************************)
RECURSIVE DedupFold(_, _)
DedupFold(driver_peaks, deduped_peaks) ==
  IF driver_peaks = <<>> THEN deduped_peaks
  ELSE LET p == Head(driver_peaks)
           dups == { j \in 1..Len(deduped_peaks) :
                       Abs(p.frequency - deduped_peaks[j].frequency) < dedupe_thresh }
       IN IF dups # {}
          THEN LET j == SetMin(dups)
               IN DedupFold(Tail(driver_peaks),
                            IF p.level > deduped_peaks[j].level
                            THEN [deduped_peaks EXCEPT ![j] = p]
                            ELSE deduped_peaks)
          ELSE DedupFold(Tail(driver_peaks),
                         IF Len(deduped_peaks) < MAX_DRIVER_PEAKS
                         THEN Append(deduped_peaks, p)
                         ELSE deduped_peaks)

DedupDriverPeaks(driver_peaks) ==
  IF Len(driver_peaks) > 1
  THEN LET deduped_peaks == DedupFold(driver_peaks, <<>>)
       IN IF Len(deduped_peaks) < Len(driver_peaks) THEN deduped_peaks ELSE driver_peaks
  ELSE driver_peaks

\* Which candidates go on: the hardware's or the software detector's.
SelectPeaks(peak_detect, sd, driver_peaks) ==
  IF peak_detect = 2
  THEN IF Len(sd) > MIN_DETECT_POINTS
       THEN blindscan_detect_peaks(sd, MAX_DRIVER_PEAKS, PEAK_THRESHOLD)
       ELSE driver_peaks
  ELSE IF peak_detect = 0 /\ Len(driver_peaks) = 0 /\ Len(sd) > MIN_DETECT_POINTS
       THEN blindscan_detect_peaks(sd, MAX_DRIVER_PEAKS, PEAK_THRESHOLD)
       ELSE driver_peaks

(***************************************************************************)
(* Overlap of a candidate with the muxes of the network                    *)
(***************************************************************************)
RolloffPercent(rolloff) ==
  CASE rolloff = "20" -> 20
    [] rolloff = "25" -> 25
    [] rolloff = "35" -> 35
    [] rolloff = "15" -> 15
    [] rolloff = "10" -> 10
    [] rolloff = "5"  -> 5
    [] OTHER -> 35

blindscan_mux_half_bandwidth(dm) ==
  ((dm.symbol_rate \div 1000) * (100 + RolloffPercent(dm.rolloff))) \div 200

\* The edges of the envelope are left out.
PeakWithinMux_Strict(frequency, polarisation, dm) ==
  /\ dm.polarisation = polarisation
  /\ frequency > dm.freq - blindscan_mux_half_bandwidth(dm)
  /\ frequency < dm.freq + blindscan_mux_half_bandwidth(dm)

PeakWithinMux(frequency, polarisation, dm) ==
  /\ dm.polarisation = polarisation
  /\ frequency >= dm.freq - blindscan_mux_half_bandwidth(dm)
  /\ frequency <= dm.freq + blindscan_mux_half_bandwidth(dm)

\* Position in the list of the first mux the candidate falls within; 0 stands for NULL.
blindscan_peak_find_overlapping_mux(frequency, polarisation, muxes) ==
  LET hits == { k \in 1..Len(muxes) : PeakWithinMux(frequency, polarisation, muxes[k]) }
  IN IF hits = {} THEN 0 ELSE SetMin(hits)

\* The candidate record the worker links for driver_peaks[i] of a slot.
NewPeak(dp, is_v, muxes, seq) ==
  LET polarisation == IF is_v = 1 THEN DVB_POLARISATION_VERTICAL
                      ELSE DVB_POLARISATION_HORIZONTAL
      overlap_mux == blindscan_peak_find_overlapping_mux(dp.frequency, polarisation, muxes)
  IN [ seq |-> seq,
       bp_frequency |-> dp.frequency,
       bp_symbol_rate |-> dp.symbol_rate,
       bp_snr |-> dp.snr,
       bp_level |-> dp.level,
       bp_polarisation |-> polarisation,
       bp_status |-> IF overlap_mux = 0 THEN "pending" ELSE "skipped",
       bp_modulation |-> "QPSK",          \* calloc: the enumerators of value 0
       bp_fec |-> "FEC_NONE",
       bp_delsys |-> "SYS_UNDEFINED",
       bp_rolloff |-> "ROLLOFF_35",
       bp_pilot |-> "PILOT_ON",
       bp_pls_mode |-> 0,
       bp_pls_code |-> 0,
       bp_stream_id |-> -1,
       bp_verified_freq |-> IF overlap_mux = 0 THEN 0 ELSE muxes[overlap_mux].freq,
       bp_verified_sr |-> IF overlap_mux = 0 THEN 0 ELSE muxes[overlap_mux].symbol_rate ]

(***************************************************************************)
(* blindscan_worker                                                        *)
(***************************************************************************)
\* "continue" of the band loop: on to the next slot.  The slot's locals go out of scope.
NextSlot(wr) ==
  [wr EXCEPT !.pc = "band_loop", !.bi = @ + 1, !.step = 0, !.total_steps = 0, !.count = 0,
             !.sd = NULL_SD, !.driver_peaks = <<>>, !.i = 0, !.center_freq = 0]

\* "continue" after a failure inside the slot.
Abandon(wr) == [NextSlot(wr) EXCEPT !.failed = @ + 1]

\* Start-up checks and the scan plan.
W_Start ==
  /\ w.pc = "start"
  /\ IF ~cfg.frontend.fd_open \/ ~cfg.frontend.neumo
     THEN /\ bs_state' = "error"
          /\ w' = [w EXCEPT !.pc = "done"]
     ELSE /\ bs_state' = bs_state
          /\ w' = [w EXCEPT !.pc = "pol_loop", !.pi = 0, !.current_scan = 0]
  /\ Touch
  /\ UNCHANGED << lifevars, apivars, envvars, regvars, bs_progress, bs_should_stop, bs_thread_running,
                  bs_peaks, bs_peak_count, bs_spectrum, notifications,
                  stop_before_final, inserted >>

\* for (pi = 0; pi < pol_count && !bs->bs_should_stop; pi++)
WorkerPolLoopCond == w.pi < pol_count /\ ~bs_should_stop

W_PolLoop ==
  /\ w.pc = "pol_loop"
  /\ w' = IF WorkerPolLoopCond
          THEN [w EXCEPT !.pc = "band_loop", !.bi = 0]
          ELSE [w EXCEPT !.pc = "final", !.pi = 0]
  /\ Touch
  /\ UNCHANGED << lifevars, apivars, envvars, regvars, bsvars, notifications, stop_before_final, inserted >>

\* for (bi = 0; bi < band_count && !bs->bs_should_stop; bi++)
WorkerBandLoopCond == w.bi < band_count /\ ~bs_should_stop

W_BandLoop ==
  /\ w.pc = "band_loop"
  /\ w' = IF WorkerBandLoopCond
          THEN [w EXCEPT !.pc = "slot"]
          ELSE [w EXCEPT !.pc = "pol_loop", !.pi = @ + 1, !.bi = 0]
  /\ Touch
  /\ UNCHANGED << lifevars, apivars, envvars, regvars, bsvars, notifications, stop_before_final, inserted >>

\* Head of the slot: progress, status text, state.
W_SlotBegin ==
  /\ w.pc = "slot"
  /\ bs_progress' = SlotProgress(w.current_scan + 1)
  /\ bs_state' = "acquiring"
  /\ w' = [w EXCEPT !.current_scan = @ + 1, !.sd = NULL_SD, !.driver_peaks = <<>>,
                    !.pc = IF cfg.unicable THEN "uc_alloc" ELSE "lnb"]
  /\ Touch
  /\ UNCHANGED << lifevars, apivars, envvars, regvars, bs_should_stop, bs_thread_running, bs_peaks,
                  bs_peak_count, bs_spectrum, notifications, stop_before_final, inserted >>

\* A worker for which a failed LNB configuration is fatal.
W_ConfigureLnb_Fatal ==
  /\ w.pc = "lnb"
  /\ \E ok \in BOOLEAN :
       IF ok THEN w' = [w EXCEPT !.pc = "acq_set"] /\ UNCHANGED bs_state
       ELSE w' = [w EXCEPT !.pc = "done", !.failed = @ + 1] /\ bs_state' = "error"
  /\ Touch
  /\ UNCHANGED << lifevars, apivars, envvars, regvars, bs_progress, bs_should_stop,
                  bs_thread_running, bs_peaks, bs_peak_count, bs_spectrum, notifications,
                  stop_before_final, inserted >>

\* Direct LNB: blindscan_configure_lnb, which may fail.
W_ConfigureLnb ==
  /\ w.pc = "lnb"
  /\ \E ok \in BOOLEAN :
       w' = IF ok THEN [w EXCEPT !.pc = "acq_set"] ELSE Abandon(w)
  /\ Touch
  /\ UNCHANGED << lifevars, apivars, envvars, regvars, bsvars, notifications, stop_before_final, inserted >>

\* blindscan_acquire_spectrum_neumo: DTV_CLEAR and the scan properties.
W_AcquireSet ==
  /\ w.pc = "acq_set"
  /\ \E ok \in BOOLEAN :
       w' = IF ok THEN [w EXCEPT !.pc = "acq_wait", !.count = 0] ELSE Abandon(w)
  /\ Touch
  /\ UNCHANGED << lifevars, apivars, envvars, regvars, bsvars, notifications, stop_before_final, inserted >>

\* One round of the wait loop: the stop flag is polled, then epoll_wait and FE_GET_EVENT.
WaitOutcomes == { "EINTR", "error", "timeout", "no_event", "no_sync", "sync" }

W_AcquireWait ==
  /\ w.pc = "acq_wait"
  /\ IF w.count >= NEUMO_WAIT_POLLS \/ bs_should_stop
     THEN w' = Abandon(w)
     ELSE \E outcome \in WaitOutcomes :
            w' = CASE outcome = "sync" -> [w EXCEPT !.pc = "acq_read", !.count = 0]
                   [] outcome \in {"error", "timeout"} -> Abandon(w)
                   [] OTHER -> [w EXCEPT !.count = @ + 1]
  /\ Touch
  /\ UNCHANGED << lifevars, apivars, envvars, regvars, bsvars, notifications, stop_before_final, inserted >>

\* The driver window of a direct acquisition, in driver kHz.
NeumoWindow(b) ==
  LET s == blindscan_driver_freq(BandStart(b), b)
      e == blindscan_driver_freq(BandEnd(b), b)
  IN IF s > e THEN <<e, s>> ELSE <<s, e>>

NeumoPoints(samples, b) ==
  [ k \in 1..Len(samples) |->
      [ frequency |-> blindscan_transponder_freq(samples[k].freq, b),
        level |-> CDiv(samples[k].level, 10) ] ]

\* Hardware candidates of a direct acquisition; cands hold driver frequencies.
NeumoPeaks(cands, b, max_peaks) ==
  [ k \in 1..Min2(Len(cands), max_peaks) |->
      [ frequency |-> blindscan_transponder_freq(cands[k].freq, b),
        symbol_rate |-> cands[k].symbol_rate,
        snr |-> CDiv(cands[k].snr, 10),
        level |-> CDiv(cands[k].level, 10) ] ]

\* What the driver reports for carriers: driver frequency = transponder - LOF.
DirectCandidates(carriers, b) ==
  [ k \in 1..Len(carriers) |-> [carriers[k] EXCEPT !.freq = blindscan_driver_freq(@, b)] ]

\* FE_GET_PROPERTY(DTV_SPECTRUM) and the conversion of its result.
W_AcquireRead ==
  /\ w.pc = "acq_read"
  /\ \/ w' = Abandon(w)          \* a buffer allocation or the ioctl fails
     \/ \E samples \in DriverSpectrumOutcomes(NeumoWindow(band)[1], NeumoWindow(band)[2]),
           carriers \in DriverCandidateOutcomes(pol_is_v, BandStart(band), BandEnd(band)) :
          w' = [w EXCEPT !.pc = "store",
                         !.sd = Sd(NeumoPoints(samples, band)),
                         !.driver_peaks = NeumoPeaks(DirectCandidates(carriers, band), band,
                                                     MAX_DRIVER_PEAKS)]
  /\ Touch
  /\ UNCHANGED << lifevars, apivars, envvars, regvars, bsvars, notifications, stop_before_final, inserted >>

\* Unicable: the band's range, the number of slices and the combined buffer.
W_UnicableAlloc ==
  /\ w.pc = "uc_alloc"
  /\ \/ w' = Abandon(w)          \* blindscan_spectrum_alloc fails
     \/ w' = [w EXCEPT !.pc = "slice_loop", !.sd = Sd(<<>>), !.step = 0,
                       !.total_steps = UnicableTotalSteps(band)]
  /\ Touch
  /\ UNCHANGED << lifevars, apivars, envvars, regvars, bsvars, notifications, stop_before_final, inserted >>

\* A slice loop that does not poll the stop flag.
SliceLoopCond_NoStopPoll == w.step < w.total_steps

\* for (step = 0; step < total_steps && !bs->bs_should_stop; step++)
WorkerSliceLoopCond == w.step < w.total_steps /\ ~bs_should_stop

W_SliceLoop ==
  /\ w.pc = "slice_loop"
  /\ w' = IF WorkerSliceLoopCond
          THEN [w EXCEPT !.pc = "slice"]
          ELSE [w EXCEPT !.pc = "store"]
  /\ Touch
  /\ UNCHANGED << lifevars, apivars, envvars, regvars, bsvars, notifications, stop_before_final, inserted >>

\* Head of a slice: centre, progress, status text, then the Unicable ODU command.
W_SliceBegin ==
  /\ w.pc = "slice"
  /\ bs_progress' = SliceProgress(w.current_scan, w.step, w.total_steps)
  /\ \E ok \in BOOLEAN :
       w' = IF ok
            THEN [w EXCEPT !.pc = "slice_acq", !.center_freq = SliceCenter(band, w.step)]
            ELSE [w EXCEPT !.pc = "slice_loop", !.step = @ + 1]
  /\ Touch
  /\ UNCHANGED << lifevars, apivars, envvars, regvars, bs_state, bs_should_stop, bs_thread_running, bs_peaks,
                  bs_peak_count, bs_spectrum, notifications, stop_before_final, inserted >>

SlicePoints(samples, center_freq, scr_freq) ==
  [ k \in 1..Len(samples) |->
      [ frequency |-> center_freq + (samples[k].freq - scr_freq),
        level |-> CDiv(samples[k].level, 10) ] ]

\* A conversion that copies every candidate the driver reports.
SlicePeaks_Uncapped(cands, center_freq, scr_freq, max_peaks) ==
  [ k \in 1..Len(cands) |->
      [ frequency |-> center_freq + (cands[k].freq - scr_freq),
        symbol_rate |-> cands[k].symbol_rate,
        snr |-> CDiv(cands[k].snr, 10),
        level |-> CDiv(cands[k].level, 10) ] ]

\* Hardware candidates of a slice; cands hold IF frequencies around the SCR frequency.
SlicePeaks(cands, center_freq, scr_freq, max_peaks) ==
  [ k \in 1..(IF max_peaks > 0 THEN Min2(Len(cands), max_peaks) ELSE 0) |->
      [ frequency |-> center_freq + (cands[k].freq - scr_freq),
        symbol_rate |-> cands[k].symbol_rate,
        snr |-> CDiv(cands[k].snr, 10),
        level |-> CDiv(cands[k].level, 10) ] ]

\* What the driver reports for carriers seen through the SCR: IF = SCR + (f - centre).
UnicableCandidates(carriers, center_freq, scr_freq) ==
  [ k \in 1..Len(carriers) |->
      [carriers[k] EXCEPT !.freq = scr_freq + (@ - center_freq)] ]

\* blindscan_acquire_unicable_slice and the append of its result to the combined buffer.
W_SliceAcquire ==
  /\ w.pc = "slice_acq"
  /\ \/ w' = [w EXCEPT !.pc = "slice_loop", !.step = @ + 1, !.center_freq = 0]  \* NULL
     \/ \E samples \in DriverSpectrumOutcomes(SCR_FREQ_KHZ - (step_size \div 2),
                                               SCR_FREQ_KHZ + (step_size \div 2)),
           carriers \in DriverCandidateOutcomes(pol_is_v,
                                                w.center_freq - (step_size \div 2),
                                                w.center_freq + (step_size \div 2)) :
          w' = IF samples = <<>>
               THEN [w EXCEPT !.pc = "slice_loop", !.step = @ + 1, !.center_freq = 0]
               ELSE [w EXCEPT !.pc = "slice_loop", !.step = @ + 1, !.center_freq = 0,
                      !.sd = Sd(PointsOf(@) \o SlicePoints(samples, w.center_freq,
                                                           SCR_FREQ_KHZ)),
                      !.driver_peaks =
                         @ \o SlicePeaks(UnicableCandidates(carriers, w.center_freq,
                                                            SCR_FREQ_KHZ),
                                         w.center_freq, SCR_FREQ_KHZ,
                                         MAX_DRIVER_PEAKS - Len(@))]
  /\ Touch
  /\ UNCHANGED << lifevars, apivars, envvars, regvars, bsvars, notifications, stop_before_final, inserted >>

\* Store the spectrum, deduplicate the hardware candidates, run the detector if asked.
W_Store ==
  /\ w.pc = "store"
  /\ bs_spectrum' = [bs_spectrum EXCEPT ![<<pol_is_v, band>>] = w.sd]
  /\ w' = [w EXCEPT !.pc = "insert", !.i = 0, !.sd = NULL_SD, !.step = 0,
                    !.total_steps = 0, !.center_freq = 0,
                    !.driver_peaks = SelectPeaks(cfg.peak_detect, PointsOf(w.sd),
                                                 DedupDriverPeaks(w.driver_peaks))]
  /\ Touch
  /\ UNCHANGED << lifevars, apivars, envvars, regvars, bs_state, bs_progress, bs_should_stop,
                  bs_thread_running, bs_peaks, bs_peak_count, notifications,
                  stop_before_final, inserted >>

\* for (i = 0; i < num_driver_peaks; i++): build the candidate, LIST_INSERT_HEAD.
W_InsertPeak ==
  /\ w.pc = "insert"
  /\ IF w.i < Len(w.driver_peaks)
     THEN \/ /\ w' = [w EXCEPT !.i = @ + 1]          \* calloc fails: the peak is dropped
             /\ UNCHANGED << bs_peaks, inserted >>
          \/ /\ bs_peaks' = << NewPeak(w.driver_peaks[w.i + 1], pol_is_v, mn_muxes,
                                       inserted + 1) >> \o bs_peaks
             /\ inserted' = inserted + 1
             /\ w' = [w EXCEPT !.pc = "count"]
     ELSE /\ w' = NextSlot(w)
          /\ UNCHANGED << bs_peaks, inserted >>
  /\ Touch
  /\ UNCHANGED << lifevars, apivars, envvars, regvars, bs_state, bs_progress, bs_should_stop,
                  bs_thread_running, bs_peak_count, bs_spectrum, notifications,
                  stop_before_final >>

\* bs->bs_peak_count++
W_CountPeak ==
  /\ w.pc = "count"
  /\ bs_peak_count' = bs_peak_count + 1
  /\ w' = [w EXCEPT !.pc = "insert", !.i = @ + 1]
  /\ Touch
  /\ UNCHANGED << lifevars, apivars, envvars, regvars, bs_state, bs_progress, bs_should_stop,
                  bs_thread_running, bs_peaks, bs_spectrum, notifications,
                  stop_before_final, inserted >>

\* A worker that does not look at the stop flag after the loops.
W_Final_IgnoresStop ==
  /\ w.pc = "final"
  /\ bs_state' = "complete"
  /\ bs_progress' = 100
  /\ w' = [w EXCEPT !.pc = "done"]
  /\ Touch
  /\ UNCHANGED << lifevars, apivars, envvars, regvars, bs_should_stop, bs_thread_running, bs_peaks,
                  bs_peak_count, bs_spectrum, notifications, stop_before_final, inserted >>

\* After the loops: cancelled if the stop flag is set, else complete with progress 100.
W_Final ==
  /\ w.pc = "final"
  /\ IF bs_should_stop
     THEN /\ bs_state' = "cancelled"
          /\ bs_progress' = bs_progress
     ELSE /\ bs_state' = "complete"
          /\ bs_progress' = 100
  /\ w' = [w EXCEPT !.pc = "done"]
  /\ Touch
  /\ UNCHANGED << lifevars, apivars, envvars, regvars, bs_should_stop, bs_thread_running, bs_peaks,
                  bs_peak_count, bs_spectrum, notifications, stop_before_final, inserted >>

\* done: the duration, then bs_thread_running = 0.
W_Done ==
  /\ w.pc = "done"
  /\ bs_thread_running' = FALSE
  /\ w' = [w EXCEPT !.pc = "log"]
  /\ Touch
  /\ UNCHANGED << lifevars, apivars, envvars, regvars, bs_state, bs_progress, bs_should_stop, bs_peaks,
                  bs_peak_count, bs_spectrum, notifications, stop_before_final, inserted >>

\* tvhinfo("Blindscan complete: ...") reads the uuid, the peak count and the duration.
W_Log ==
  /\ w.pc = "log"
  /\ w' = [w EXCEPT !.pc = "notify"]
  /\ Touch
  /\ UNCHANGED << lifevars, apivars, envvars, regvars, bsvars, notifications, stop_before_final, inserted >>

NotifyState(state) ==
  IF state = "complete" THEN "complete"
  ELSE IF state = "cancelled" THEN "cancelled" ELSE "error"

\* What the reads of bs->bs_state and bs->bs_peak_count for the notification yield: the
\* fields, or whatever the memory holds once the session has been freed.
NotifyReads ==
  IF bs_alloc = "freed"
  THEN { [state |-> st, peaks |-> n] : st \in { "complete", "cancelled", "error" },
                                       n \in { 0, bs_peak_count } }
  ELSE { [state |-> NotifyState(bs_state), peaks |-> bs_peak_count] }

\* The notification is built from the session and sent; the thread returns.
W_Notify ==
  /\ w.pc = "notify"
  /\ \E m \in NotifyReads : notifications' = Append(notifications, m)
  /\ w' = [w EXCEPT !.pc = "exit"]
  /\ Touch
  /\ UNCHANGED << lifevars, apivars, envvars, regvars, bsvars, stop_before_final, inserted >>

Worker ==
  \/ W_Start \/ W_PolLoop \/ W_BandLoop \/ W_SlotBegin
  \/ W_ConfigureLnb \/ W_AcquireSet \/ W_AcquireWait \/ W_AcquireRead
  \/ W_UnicableAlloc \/ W_SliceLoop \/ W_SliceBegin \/ W_SliceAcquire
  \/ W_Store \/ W_InsertPeak \/ W_CountPeak
  \/ W_Final \/ W_Done \/ W_Log \/ W_Notify

(***************************************************************************)
(* API entry points, each on its caller's thread                           *)
(***************************************************************************)
\* The worker has made its check of the stop flag after the loops or skipped it.
PastFinalCheck == w.pc \in {"done", "log", "notify", "exit"}

\* A caller sets bs->bs_should_stop = 1.
SetStop ==
  /\ bs_should_stop' = TRUE
  /\ stop_before_final' = (stop_before_final \/ ~PastFinalCheck)

\* An API thread touches the session.
ApiTouch == api_uaf' = (api_uaf \/ bs_alloc = "freed")

\* linuxdvb_blindscan_find: the registry walk under blindscan_mutex; the pointer it
\* returns is used after the mutex is dropped.
linuxdvb_blindscan_find == blindscan_mutex = NULL /\ sessions

\* linuxdvb_blindscan_cancel
Cancel_Find ==
  /\ cancel_pc = "idle"
  /\ linuxdvb_blindscan_find
  /\ cancel_pc' = "found"
  /\ UNCHANGED << envvars, regvars, bsvars, w, notifications, histvars, lifevars,
                  status_pc, status_resp, peaks_pc, peaks_list, peaks_resp, api_uaf >>

\* A cancel that writes the state itself.
Cancel_Stop_WritesState ==
  /\ cancel_pc = "found"
  /\ SetStop
  /\ ApiTouch
  /\ bs_state' = "cancelled"
  /\ cancel_pc' = "idle"
  /\ UNCHANGED << envvars, regvars, bs_progress, bs_thread_running, bs_peaks,
                  bs_peak_count, bs_spectrum, w, notifications, worker_uaf, inserted,
                  lifevars, status_pc, status_resp, peaks_pc, peaks_list, peaks_resp >>

Cancel_Stop ==
  /\ cancel_pc = "found"
  /\ SetStop
  /\ ApiTouch
  /\ cancel_pc' = "idle"
  /\ UNCHANGED << envvars, regvars, bs_state, bs_progress, bs_thread_running, bs_peaks,
                  bs_peak_count, bs_spectrum, w, notifications, worker_uaf, inserted,
                  lifevars, status_pc, status_resp, peaks_pc, peaks_list, peaks_resp >>

linuxdvb_blindscan_cancel == Cancel_Find \/ Cancel_Stop

\* linuxdvb_blindscan_release, caller r: lock, look the session up; not found is a no-op,
\* found sets the stop flag.
Rel_FindStop(r) ==
  /\ rel[r] = "idle"
  /\ bs_alloc # "none"
  /\ blindscan_mutex = NULL
  /\ IF sessions
     THEN /\ SetStop
          /\ blindscan_mutex' = r
          /\ rel' = [rel EXCEPT ![r] = "check"]
     ELSE /\ rel' = [rel EXCEPT ![r] = "noop"]
          /\ UNCHANGED << blindscan_mutex, bs_should_stop, stop_before_final >>
  /\ UNCHANGED << envvars, sessions, bs_alloc, bs_state, bs_progress, bs_thread_running,
                  bs_peaks, bs_peak_count, bs_spectrum, w, notifications, worker_uaf,
                  inserted, joinid, done_pc, remove_count, free_count, apivars >>

\* if (bs->bs_thread_running) { unlock; pthread_join; lock; }
Rel_CheckRunning(r) ==
  /\ rel[r] = "check"
  /\ IF bs_thread_running
     THEN /\ blindscan_mutex' = NULL
          /\ rel' = [rel EXCEPT ![r] = "join_call"]
     ELSE /\ rel' = [rel EXCEPT ![r] = "cleanup"]
          /\ UNCHANGED blindscan_mutex
  /\ UNCHANGED << envvars, sessions, bs_alloc, bsvars, w, notifications, histvars,
                  joinid, done_pc, remove_count, free_count, apivars >>

\* pthread_join(bs->bs_thread): the first joiner waits for the thread to return.  A
\* join of a thread that another thread joins or has joined is undefined: it may fail
\* at once or wait like the first.
JoinCall(caller, waiting, failed) ==
  IF joinid = NULL
  THEN joinid' = caller /\ waiting
  ELSE UNCHANGED joinid /\ (waiting \/ failed)

Rel_JoinCall(r) ==
  /\ rel[r] = "join_call"
  /\ JoinCall(r, rel' = [rel EXCEPT ![r] = "joining"], rel' = [rel EXCEPT ![r] = "relock"])
  /\ UNCHANGED << envvars, regvars, bsvars, w, notifications, histvars,
                  done_pc, remove_count, free_count, apivars >>

Rel_JoinReturn(r) ==
  /\ rel[r] = "joining"
  /\ w.pc = "exit"
  /\ rel' = [rel EXCEPT ![r] = "relock"]
  /\ UNCHANGED << envvars, regvars, bsvars, w, notifications, histvars,
                  joinid, done_pc, remove_count, free_count, apivars >>

\* LIST_REMOVE(bs, bs_link), blindscan_peaks_free, the spectrum buffers, free(bs).
Cleanup ==
  /\ sessions' = FALSE
  /\ remove_count' = remove_count + 1
  /\ bs_peaks' = <<>>
  /\ bs_peak_count' = 0
  /\ bs_alloc' = "freed"
  /\ free_count' = free_count + 1

Rel_Cleanup(r) ==
  /\ \/ rel[r] = "relock" /\ blindscan_mutex = NULL
     \/ rel[r] = "cleanup"
  /\ Cleanup
  /\ blindscan_mutex' = NULL
  /\ rel' = [rel EXCEPT ![r] = "returned"]
  /\ UNCHANGED << envvars, bs_state, bs_progress, bs_should_stop, bs_thread_running,
                  bs_spectrum, w, notifications, histvars, joinid, done_pc, apivars >>

linuxdvb_blindscan_release(r) ==
  \/ Rel_FindStop(r) \/ Rel_CheckRunning(r) \/ Rel_JoinCall(r) \/ Rel_JoinReturn(r)
  \/ Rel_Cleanup(r)

\* linuxdvb_blindscan_done: everything under blindscan_mutex, the join included.
Done_Stop ==
  /\ done_pc = "idle"
  /\ bs_alloc # "none"
  /\ blindscan_mutex = NULL
  /\ blindscan_mutex' = "done"
  /\ IF sessions THEN SetStop ELSE UNCHANGED << bs_should_stop, stop_before_final >>
  /\ done_pc' = "check"
  /\ UNCHANGED << envvars, sessions, bs_alloc, bs_state, bs_progress, bs_thread_running,
                  bs_peaks, bs_peak_count, bs_spectrum, w, notifications, worker_uaf,
                  inserted, joinid, rel, remove_count, free_count, apivars >>

Done_CheckRunning ==
  /\ done_pc = "check"
  /\ done_pc' = IF sessions /\ bs_thread_running THEN "join_call" ELSE "free"
  /\ UNCHANGED << envvars, regvars, bsvars, w, notifications, histvars,
                  joinid, rel, remove_count, free_count, apivars >>

Done_JoinCall ==
  /\ done_pc = "join_call"
  /\ JoinCall("done", done_pc' = "joining", done_pc' = "free")
  /\ UNCHANGED << envvars, regvars, bsvars, w, notifications, histvars,
                  rel, remove_count, free_count, apivars >>

Done_JoinReturn ==
  /\ done_pc = "joining"
  /\ w.pc = "exit"
  /\ done_pc' = "free"
  /\ UNCHANGED << envvars, regvars, bsvars, w, notifications, histvars,
                  joinid, rel, remove_count, free_count, apivars >>

Done_Free ==
  /\ done_pc = "free"
  /\ IF sessions THEN Cleanup
     ELSE UNCHANGED << sessions, remove_count, bs_peaks, bs_peak_count, bs_alloc,
                       free_count >>
  /\ blindscan_mutex' = NULL
  /\ done_pc' = "finished"
  /\ UNCHANGED << envvars, bs_state, bs_progress, bs_should_stop, bs_thread_running,
                  bs_spectrum, w, notifications, histvars, joinid, rel, apivars >>

linuxdvb_blindscan_done ==
  Done_Stop \/ Done_CheckRunning \/ Done_JoinCall \/ Done_JoinReturn \/ Done_Free

\* linuxdvb_blindscan_status
Status_Find ==
  /\ status_pc = "idle"
  /\ linuxdvb_blindscan_find
  /\ status_pc' = "found"
  /\ UNCHANGED << envvars, regvars, bsvars, w, notifications, histvars, lifevars,
                  cancel_pc, status_resp, peaks_pc, peaks_list, peaks_resp, api_uaf >>

\* The response; linked records how many candidates were in the list when it was built.
Status_Read ==
  /\ status_pc = "found"
  /\ status_resp' = [ state |-> bs_state, progress |-> bs_progress,
                      peak_count |-> bs_peak_count, linked |-> Len(bs_peaks) ]
  /\ ApiTouch
  /\ status_pc' = "reply"
  /\ UNCHANGED << envvars, regvars, bsvars, w, notifications, histvars, lifevars,
                  cancel_pc, peaks_pc, peaks_list, peaks_resp >>

\* The caller sends the response and destroys it.
Status_Return ==
  /\ status_pc = "reply"
  /\ status_resp' = NULL
  /\ status_pc' = "idle"
  /\ UNCHANGED << envvars, regvars, bsvars, w, notifications, histvars, lifevars,
                  cancel_pc, peaks_pc, peaks_list, peaks_resp, api_uaf >>

linuxdvb_blindscan_status == Status_Find \/ Status_Read \/ Status_Return

\* linuxdvb_blindscan_peaks: matching of a pending candidate against the muxes.
\* The offset without its minimum of 1 MHz.
PeaksMaxOffset_NoMinimum(dm) ==
  IF dm.symbol_rate > 0 THEN dm.symbol_rate \div 2000 ELSE 3000

PeaksMaxOffset(dm) ==
  LET max_offset == IF dm.symbol_rate > 0 THEN dm.symbol_rate \div 2000 ELSE 3000
  IN IF max_offset < 1000 THEN 1000 ELSE max_offset

PeaksMatch(peak, dm) ==
  /\ Abs(dm.freq - peak.bp_frequency) < PeaksMaxOffset(dm)
  /\ dm.polarisation = peak.bp_polarisation

\* Any matching mux counts, whatever its scan result.
found_ok_AnyResult(peak, muxes) ==
  \E k \in 1..Len(muxes) : PeaksMatch(peak, muxes[k])

found_ok(peak, muxes) ==
  \E k \in 1..Len(muxes) : PeaksMatch(peak, muxes[k]) /\ muxes[k].scan_result = "OK"

found_fail(peak, muxes) ==
  \E k \in 1..Len(muxes) : PeaksMatch(peak, muxes[k]) /\ muxes[k].scan_result # "OK"

\* bp_status after the handler has looked at the candidate.
PeaksVisit(peak, muxes) ==
  IF peak.bp_status = "pending" /\ found_ok(peak, muxes)
  THEN [peak EXCEPT !.bp_status = "skipped"]
  ELSE peak

\* The entry of the response for a candidate.
PeaksEntry(peak, muxes) ==
  LET existing == peak.bp_status = "pending" /\ found_ok(peak, muxes)
      existing_failed == peak.bp_status = "pending" /\ ~found_ok(peak, muxes)
                         /\ found_fail(peak, muxes)
      after == PeaksVisit(peak, muxes)
  IN [ seq |-> peak.seq,
       frequency |-> peak.bp_frequency,
       polarisation |-> IF peak.bp_polarisation = DVB_POLARISATION_VERTICAL
                        THEN "V" ELSE "H",
       status |-> CASE after.bp_status = "pending" ->
                         (IF existing_failed THEN "retry" ELSE "pending")
                    [] after.bp_status = "scanning" -> "scanning"
                    [] after.bp_status = "locked" -> "locked"
                    [] after.bp_status = "failed" -> "failed"
                    [] after.bp_status = "skipped" -> "existing"
                    [] OTHER -> "unknown",
       existing |-> existing,
       has_failed_mux |-> existing_failed ]

Peaks_Find ==
  /\ peaks_pc = "idle"
  /\ linuxdvb_blindscan_find
  /\ peaks_pc' = "found"
  /\ UNCHANGED << envvars, regvars, bsvars, w, notifications, histvars, lifevars,
                  cancel_pc, status_pc, status_resp, peaks_list, peaks_resp, api_uaf >>

\* LIST_FOREACH(peak, &bs->bs_peaks, bp_link): the walk sees the list as it is when the
\* head is read, since the worker links new candidates in front of the head.
Peaks_Walk ==
  /\ peaks_pc = "found"
  /\ peaks_list' = [ k \in 1..Len(bs_peaks) |-> PeaksEntry(bs_peaks[k], mn_muxes) ]
  /\ bs_peaks' = [ k \in 1..Len(bs_peaks) |-> PeaksVisit(bs_peaks[k], mn_muxes) ]
  /\ ApiTouch
  /\ peaks_pc' = "walked"
  /\ UNCHANGED << envvars, regvars, bs_state, bs_progress, bs_should_stop,
                  bs_thread_running, bs_peak_count, bs_spectrum, w, notifications,
                  histvars, lifevars, cancel_pc, status_pc, status_resp, peaks_resp >>

\* htsmsg_add_u32(m, "count", bs->bs_peak_count) and the return of the response.
Peaks_Count ==
  /\ peaks_pc = "walked"
  /\ peaks_resp' = [ peaks |-> peaks_list, count |-> bs_peak_count ]
  /\ peaks_list' = <<>>
  /\ ApiTouch
  /\ peaks_pc' = "reply"
  /\ UNCHANGED << envvars, regvars, bsvars, w, notifications, histvars, lifevars,
                  cancel_pc, status_pc, status_resp >>

\* The caller sends the response and destroys it.
Peaks_Return ==
  /\ peaks_pc = "reply"
  /\ peaks_resp' = NULL
  /\ peaks_pc' = "idle"
  /\ UNCHANGED << envvars, regvars, bsvars, w, notifications, histvars, lifevars,
                  cancel_pc, status_pc, status_resp, peaks_list, api_uaf >>

linuxdvb_blindscan_peaks == Peaks_Find \/ Peaks_Walk \/ Peaks_Count \/ Peaks_Return


(***************************************************************************)
(* linuxdvb_blindscan_prescan, on its caller's thread                      *)
(***************************************************************************)
\* The (frequency, polarisation) arguments of the calls: 1500 kHz and exactly 2000 kHz
\* from the low-band candidate, the candidate's frequency with the other polarisation,
\* and the high-band candidate with a lower-case letter.
PrescanRequests ==
  { <<11664500, "H">>, <<11665000, "H">>, <<11663000, "V">>, <<11740000, "h">> }

\* The test of the walk over bs_peaks.
PrescanMatch_AnyPol(peak, frequency, pol) == Abs(peak.bp_frequency - frequency) < 2000

PrescanMatch(peak, frequency, pol) ==
  /\ Abs(peak.bp_frequency - frequency) < 2000
  /\ IF pol \in { "H", "h" }
     THEN peak.bp_polarisation = DVB_POLARISATION_HORIZONTAL
     ELSE peak.bp_polarisation = DVB_POLARISATION_VERTICAL

\* LIST_FOREACH ... break: the position of the candidate the walk stops at, 0 for NULL.
PrescanFindPeak(peaks, frequency, pol) ==
  LET hits == { k \in 1..Len(peaks) : PrescanMatch(peaks[k], frequency, pol) }
  IN IF hits = {} THEN 0 ELSE SetMin(hits)

PrescanEstSymbolRate(peaks, k) ==
  IF k # 0 /\ peaks[k].bp_symbol_rate > 0 THEN peaks[k].bp_symbol_rate ELSE 22000000

PrescanSearchRange(est_symbol_rate) ==
  IF est_symbol_rate > 8000000 THEN est_symbol_rate \div 2 ELSE 8000000

\* The budget of the wait for lock, in ms, and the delays after which the frontend
\* may signal an event.
PrescanTimeoutMs == 12000
EventDelaysMs == { 5000, 8000 }

\* The status masks of the frontend events.
FeStatusMasks ==
  { {}, { "FE_HAS_SIGNAL", "FE_HAS_CARRIER" }, { "FE_HAS_LOCK" },
    { "FE_HAS_SYNC" }, { "FE_HAS_LOCK", "FE_HAS_SYNC" } }

\* A lock test that is content with the carrier lock.
FullLock_CarrierOnly(status) == "FE_HAS_LOCK" \in status

\* (status & (FE_HAS_LOCK | FE_HAS_SYNC)) == (FE_HAS_LOCK | FE_HAS_SYNC)
FullLock(status) == { "FE_HAS_LOCK", "FE_HAS_SYNC" } \subseteq status

\* The DTV_STREAM_ID values the driver may report after a lock.
RawStreamIds == { 0, 255, 256, 257, 510, 511 }

\* What FE_GET_PROPERTY reads back after a lock on raw stream id k: an unfiltered
\* DVB-S carrier for 511, a DVB-S2 multistream carrier with Gold code 8192 otherwise.
ReadBack(k) ==
  IF k = 511
  THEN [ freq_offset |-> 0, symbol_rate |-> 27500000, modulation |-> "QPSK",
         fec |-> "FEC_3_4", delsys |-> "SYS_DVBS", stream_id |-> k,
         rolloff |-> "ROLLOFF_35", pilot |-> "PILOT_OFF", matype |-> 0 ]
  ELSE [ freq_offset |-> 750, symbol_rate |-> 21999000, modulation |-> "PSK_8",
         fec |-> "FEC_2_3", delsys |-> "SYS_DVBS2", stream_id |-> k,
         rolloff |-> "ROLLOFF_20", pilot |-> "PILOT_ON",
         matype |-> (1 * (2 ^ 26)) + (8192 * (2 ^ 8)) + 128 ]

\* A stream id decoder that leaves the driver's encoding as it is.
PrescanStreamId_Raw(raw) == raw

\* Convert driver ISI encoding: 256 = ISI 0, 511 = no ISI filter (-1).
PrescanStreamId(raw) ==
  IF raw = 511 THEN -1
  ELSE IF raw >= 256 /\ raw < 511 THEN raw - 256 ELSE raw

PrescanPlsMode(matype) == (matype \div (2 ^ 26)) % 4
PrescanPlsCode(matype) == (matype \div (2 ^ 8)) % 262144

\* The MATYPE byte alone decides.
PrescanIsGse_ByteOnly(stream_id, matype) == ((matype % 256) \div 64) % 4 # 3

\* is_gse = (stream_id >= 0 && matype != 0 && ts_gs != 3)
PrescanIsGse(stream_id, matype) ==
  LET matype_byte == matype % 256
      ts_gs == (matype_byte \div 64) % 4
  IN stream_id >= 0 /\ matype # 0 /\ ts_gs # 3

\* The candidate of position k with the parameters read back written into it.
PrescanLockedPeak(peak, actual_freq, rb) ==
  [ peak EXCEPT !.bp_frequency = actual_freq,
                !.bp_symbol_rate = rb.symbol_rate,
                !.bp_modulation = rb.modulation,
                !.bp_fec = rb.fec,
                !.bp_delsys = rb.delsys,
                !.bp_stream_id = PrescanStreamId(rb.stream_id),
                !.bp_pls_mode = PrescanPlsMode(rb.matype),
                !.bp_pls_code = PrescanPlsCode(rb.matype),
                !.bp_rolloff = rb.rolloff,
                !.bp_pilot = rb.pilot,
                !.bp_status = "locked" ]

\* The position in the list of the candidate the call's peak pointer refers to.
PrescanPeakIndex ==
  LET hits == { k \in 1..Len(bs_peaks) : bs_peaks[k].seq = pre.peak }
  IN IF pre.peak = 0 \/ hits = {} THEN 0 ELSE CHOOSE k \in hits : TRUE

\* The session is looked up and the list walked for the symbol rate estimate.
Pre_Find ==
  /\ pre.pc = "idle"
  /\ linuxdvb_blindscan_find
  /\ \E req \in PrescanRequests :
       LET k == PrescanFindPeak(bs_peaks, req[1], req[2])
       IN pre' = [ PrescanIdle EXCEPT !.pc = "setup", !.frequency = req[1], !.pol = req[2],
                     !.peak = IF k = 0 THEN 0 ELSE bs_peaks[k].seq,
                     !.est_symbol_rate = PrescanEstSymbolRate(bs_peaks, k) ]
  /\ ApiTouch
  /\ UNCHANGED << fn, cfg, mn_muxes, crt, bs_muxes_created, regvars, bsvars, w, notifications, histvars, lifevars,
                  cancel_pc, status_pc, status_resp, peaks_pc, peaks_list, peaks_resp >>

\* The descriptor check, the Unicable command or the LNB chain, DTV_CLEAR and the blind
\* tune request.
Pre_Setup ==
  /\ pre.pc = "setup"
  /\ IF ~cfg.frontend.fd_open
     THEN pre' = [ pre EXCEPT !.pc = "reply", !.result.error = "Frontend not available" ]
     ELSE LET b == blindscan_band_for_freq(pre.frequency)
              driver_freq == IF cfg.unicable THEN SCR_FREQ_KHZ
                             ELSE pre.frequency - LofOf(b)
          IN \E outcome \in { "chain_failed", "tune_failed", "tuned" } :
               pre' = CASE outcome = "chain_failed" ->
                             [ pre EXCEPT !.pc = "reply",
                                 !.result.error = IF cfg.unicable
                                                  THEN "Unicable command failed"
                                                  ELSE "Failed to configure LNB" ]
                        [] outcome = "tune_failed" ->
                             [ pre EXCEPT !.pc = "reply", !.result.error = "Tune failed" ]
                        [] OTHER ->
                             [ pre EXCEPT !.pc = "wait", !.driver_freq = driver_freq,
                                 !.search_range = PrescanSearchRange(pre.est_symbol_rate),
                                 !.elapsed = 0, !.waited = TRUE ]
  /\ UNCHANGED << fn, cfg, mn_muxes, crt, bs_muxes_created, regvars, bsvars, w, notifications, histvars, lifevars,
                  apivars >>

\* One round of while (!locked && elapsed < timeout): epoll_wait, then FE_GET_EVENT.
\* If epoll_create1 fails the loop is not entered.
Pre_Wait ==
  /\ pre.pc = "wait"
  /\ IF ~pre.locked /\ pre.elapsed < PrescanTimeoutMs
     THEN \/ /\ pre.elapsed = 0         \* epoll_create1 failed
             /\ pre' = [ pre EXCEPT !.pc = "read" ]
          \/ pre' = [ pre EXCEPT !.elapsed = PrescanTimeoutMs ]     \* epoll_wait returns 0
          \/ \E d \in EventDelaysMs :
               /\ pre.elapsed + d < PrescanTimeoutMs
               /\ \/ pre' = [ pre EXCEPT !.elapsed = @ + d ]   \* EINTR, or FE_GET_EVENT fails
                  \/ \E status \in FeStatusMasks :
                       pre' = [ pre EXCEPT !.elapsed = @ + d,
                                  !.locked = FullLock(status),
                                  !.full_lock_seen = ("FE_HAS_LOCK" \in status
                                                      /\ "FE_HAS_SYNC" \in status),
                                  !.lock_only_seen = (@ \/ ("FE_HAS_LOCK" \in status
                                                           /\ "FE_HAS_SYNC" \notin status)) ]
     ELSE pre' = [ pre EXCEPT !.pc = "read" ]
  /\ UNCHANGED << fn, cfg, mn_muxes, crt, bs_muxes_created, regvars, bsvars, w, notifications, histvars, lifevars,
                  apivars >>

\* After the wait: the locked flag of the result; on a lock the read-back of the
\* parameters into the result and the candidate, else the candidate's status failed;
\* DTV_CLEAR.
Pre_Read ==
  /\ pre.pc = "read"
  /\ LET k == PrescanPeakIndex
     IN IF pre.locked
        THEN \/ /\ pre' = [ pre EXCEPT !.pc = "reply", !.result.locked = TRUE ]
                /\ UNCHANGED bs_peaks                   \* FE_GET_PROPERTY fails
             \/ \E raw \in RawStreamIds :
                  LET rb == ReadBack(raw)
                      actual_freq ==
                        IF cfg.unicable THEN pre.frequency
                        ELSE (pre.driver_freq + rb.freq_offset)
                             + LofOf(blindscan_band_for_freq(pre.frequency))
                  IN /\ pre' = [ pre EXCEPT !.pc = "reply", !.raw_stream_id = raw,
                                   !.result = [ locked |-> TRUE, error |-> "",
                                                has_params |-> TRUE,
                                                frequency |-> actual_freq,
                                                symbol_rate |-> rb.symbol_rate,
                                                stream_id |-> PrescanStreamId(rb.stream_id),
                                                is_gse |-> PrescanIsGse(
                                                  PrescanStreamId(rb.stream_id),
                                                  rb.matype) ] ]
                     /\ bs_peaks' = IF k = 0 THEN bs_peaks
                                    ELSE [ bs_peaks EXCEPT
                                             ![k] = PrescanLockedPeak(@, actual_freq, rb) ]
        ELSE /\ pre' = [ pre EXCEPT !.pc = "reply", !.result.locked = FALSE ]
             /\ bs_peaks' = IF k = 0 THEN bs_peaks
                            ELSE [ bs_peaks EXCEPT ![k].bp_status = "failed" ]
  /\ ApiTouch
  /\ UNCHANGED << fn, cfg, mn_muxes, crt, bs_muxes_created, regvars, bs_state, bs_progress, bs_should_stop,
                  bs_thread_running, bs_peak_count, bs_spectrum, w, notifications,
                  histvars, lifevars, cancel_pc, status_pc, status_resp, peaks_pc,
                  peaks_list, peaks_resp >>

\* The result goes back to the client, which makes no further call.
Pre_Return ==
  /\ pre.pc = "reply"
  /\ pre' = [ PrescanIdle EXCEPT !.pc = "returned" ]
  /\ UNCHANGED << fn, cfg, mn_muxes, crt, bs_muxes_created, regvars, bsvars, w, notifications, histvars, lifevars,
                  apivars >>

linuxdvb_blindscan_prescan == Pre_Find \/ Pre_Setup \/ Pre_Wait \/ Pre_Read \/ Pre_Return

(***************************************************************************)
(* linuxdvb_blindscan_create_muxes_selected, under global_lock             *)
(***************************************************************************)
\* A candidate of the client's list that was never prescanned: nothing but the
\* frequency, the polarisation and the symbol rate estimate.
ItemBlank == [ frequency |-> 11663000, polarisation |-> "H", symbol_rate |-> 22000000 ]

\* Stream k of a multistream carrier the client has prescanned.
ItemIsi(k) ==
  [ frequency |-> 11740750, polarisation |-> "H", symbol_rate |-> 21999000,
    modulation |-> "8PSK", fec |-> "2/3", delsys |-> "DVB-S2", rolloff |-> "20",
    pilot |-> "ON", stream_id |-> k, pls_mode |-> "GOLD", pls_code |-> 8192,
    is_gse |-> (k = 2) ]

\* An entry without a frequency.
ItemNoFreq == [ polarisation |-> "V", symbol_rate |-> 27500000 ]

\* The "peaks" lists of the calls.
Selections ==
  { << ItemBlank >>,
    << ItemIsi(0), ItemIsi(1), ItemIsi(2) >>,
    << ItemBlank, ItemNoFreq, ItemBlank >> }

\* htsmsg_get_str, htsmsg_get_u32_or_default, ...: the field, or the default.
ItemGet(item, key, default) == IF key \in DOMAIN item THEN item[key] ELSE default

blindscan_parse_modulation(mod) ==
  IF mod \in { "QPSK", "8PSK", "16APSK", "32APSK", "64APSK", "128APSK", "256APSK" }
  THEN mod ELSE "AUTO"

blindscan_parse_fec(fec) ==
  IF fec \in { "1/2", "2/3", "3/4", "4/5", "5/6", "6/7", "7/8", "8/9", "9/10", "3/5" }
  THEN fec ELSE "AUTO"

blindscan_parse_pls_mode(mode) == IF mode \in { "GOLD", "COMBO" } THEN mode ELSE "ROOT"

blindscan_parse_rolloff(rolloff) ==
  IF rolloff \in { "35", "25", "20", "15", "10", "5" } THEN rolloff ELSE "AUTO"

blindscan_parse_pilot(pilot) == IF pilot \in { "ON", "OFF" } THEN pilot ELSE "AUTO"

\* strstr(delsys_str, "S2"), then strcmp(delsys_str, "DVB-S"), else the default.
SelectedDelsys(delsys_str) ==
  IF delsys_str \in { "DVB-S2", "DVBS2" } THEN "DVBS2"
  ELSE IF delsys_str = "DVB-S" THEN "DVBS" ELSE "DVBS2"

\* An entry's stream id is dropped from the tuning record.
SelectedStreamId_NoFilter(stream_id) == -1

\* stream_id >= 0 ? stream_id : DVB_NO_STREAM_ID_FILTER
SelectedStreamId(stream_id) == IF stream_id >= 0 THEN stream_id ELSE -1

\* The tuning record dmc built from an entry of the list.
SelectedDmc(item) ==
  LET symbol_rate == ItemGet(item, "symbol_rate", 0)
      pls_code == ItemGet(item, "pls_code", 0)
  IN [ freq |-> ItemGet(item, "frequency", 0),
       symbol_rate |-> IF symbol_rate > 0 THEN symbol_rate ELSE 27500000,
       polarisation |-> IF ItemGet(item, "polarisation", NULL) = "V"
                        THEN DVB_POLARISATION_VERTICAL
                        ELSE DVB_POLARISATION_HORIZONTAL,
       delsys |-> SelectedDelsys(ItemGet(item, "delsys", NULL)),
       modulation |-> blindscan_parse_modulation(ItemGet(item, "modulation", NULL)),
       fec |-> blindscan_parse_fec(ItemGet(item, "fec", NULL)),
       rolloff |-> blindscan_parse_rolloff(ItemGet(item, "rolloff", NULL)),
       pilot |-> blindscan_parse_pilot(ItemGet(item, "pilot", NULL)),
       stream_id |-> SelectedStreamId(ItemGet(item, "stream_id", -1)),
       pls_mode |-> blindscan_parse_pls_mode(ItemGet(item, "pls_mode", NULL)),
       pls_code |-> IF pls_code >= 0 /\ pls_code < 262144 THEN pls_code ELSE 0 ]

\* The tuning record of a mux of the network.
TuningOf(dm) ==
  [ freq |-> dm.freq, symbol_rate |-> dm.symbol_rate, polarisation |-> dm.polarisation,
    delsys |-> dm.delsys, modulation |-> dm.modulation, fec |-> dm.fec,
    rolloff |-> dm.rolloff, pilot |-> dm.pilot, stream_id |-> dm.stream_id,
    pls_mode |-> dm.pls_mode, pls_code |-> dm.pls_code ]

\* dvb_network_find_mux: a mux of the network whose tuning record is exactly dmc.
dvb_network_find_mux(muxes, dmc) == \E k \in 1..Len(muxes) : TuningOf(muxes[k]) = dmc

\* dvb_mux_create0: the new mux, linked into the network and not yet scanned.
dvb_mux_create0(dmc, is_gse) ==
  [ freq |-> dmc.freq, symbol_rate |-> dmc.symbol_rate, rolloff |-> dmc.rolloff,
    polarisation |-> dmc.polarisation, scan_result |-> "NONE", delsys |-> dmc.delsys,
    modulation |-> dmc.modulation, fec |-> dmc.fec, pilot |-> dmc.pilot,
    stream_id |-> dmc.stream_id, pls_mode |-> dmc.pls_mode, pls_code |-> dmc.pls_code,
    mm_type |-> IF is_gse THEN "MM_TYPE_GSE" ELSE "MM_TYPE_TS",
    by_create |-> TRUE ]

\* HTSMSG_FOREACH(f, selected_peaks) from entry i on; fails holds the entries for which
\* dvb_mux_create0 returns NULL.  The result is the network and the count.
RECURSIVE CreateLoop(_, _, _, _, _)
CreateLoop(items, i, fails, muxes, created) ==
  IF i > Len(items) THEN [ muxes |-> muxes, created |-> created ]
  ELSE LET dmc == SelectedDmc(items[i])
       IN IF dmc.freq = 0 \/ dvb_network_find_mux(muxes, dmc) \/ i \in fails
          THEN CreateLoop(items, i + 1, fails, muxes, created)
          ELSE CreateLoop(items, i + 1, fails,
                          << dvb_mux_create0(dmc, ItemGet(items[i], "is_gse", FALSE)) >>
                            \o muxes,
                          created + 1)

\* The call: the session is looked up, the entries are worked through, the count is
\* added to bs_muxes_created.
Crt_Call ==
  /\ crt.pc = "idle"
  /\ crt.calls < MaxCreateCalls
  /\ linuxdvb_blindscan_find
  /\ \E sel \in Selections, fails \in { {}, {1} } :
       LET r == CreateLoop(sel, 1, fails, mn_muxes, 0)
       IN /\ mn_muxes' = r.muxes
          /\ bs_muxes_created' = bs_muxes_created + r.created
          /\ crt' = [ pc |-> "reply", selected_peaks |-> sel, created |-> r.created,
                      prev |-> [ crt.prev EXCEPT !.now_clean = (fails = {}) ],
                      calls |-> crt.calls + 1 ]
  /\ ApiTouch
  /\ UNCHANGED << fn, cfg, pre, regvars, bsvars, w, notifications, histvars, lifevars,
                  cancel_pc, status_pc, status_resp, peaks_pc, peaks_list, peaks_resp >>

\* The count goes back to the client.
Crt_Return ==
  /\ crt.pc = "reply"
  /\ crt' = CreateIdle([ selected_peaks |-> crt.selected_peaks,
                         clean |-> crt.prev.now_clean, now_clean |-> TRUE ], crt.calls)
  /\ UNCHANGED << fn, cfg, mn_muxes, pre, bs_muxes_created, regvars, bsvars, w, notifications,
                  histvars, lifevars, apivars >>

linuxdvb_blindscan_create_muxes_selected == Crt_Call \/ Crt_Return

\* The upstream scanner finishes the scan of a mux that create queued.
Scan_Done ==
  /\ \E k \in 1..Len(mn_muxes), res \in { "OK", "FAIL" } :
       /\ mn_muxes[k].scan_result = "NONE"
       /\ \A j \in (k + 1)..Len(mn_muxes) : mn_muxes[j].scan_result # "NONE"
       /\ mn_muxes' = [ mn_muxes EXCEPT ![k].scan_result = res ]
  /\ UNCHANGED << fn, cfg, pre, crt, bs_muxes_created, regvars, bsvars, w, notifications,
                  histvars, lifevars, apivars >>

(***************************************************************************)
(* linuxdvb_blindscan_prescan: the symbol rate estimate and DTV_SEARCH_RANGE *)
(***************************************************************************)
\* A candidate of the list, as the worker links it on a network without muxes.
Candidate(frequency, is_v, symbol_rate, seq) ==
  NewPeak([ frequency |-> frequency, symbol_rate |-> symbol_rate, snr |-> 1300,
            level |-> -3900 ], is_v, << >>, seq)

\* The symbol rate estimates of the candidates: zero, around the 8 Msym/s test, around
\* twice that, and common rates.
SearchRates ==
  { 0, 1000000, 7999999, 8000000, 8000001, 10000000, 15999999, 16000000, 16000001,
    22000000, 27500000, 45000000 }

\* The calls: a request for 11664500 H on an empty list, on a list whose only candidate
\* matches, and on a list whose head has the other polarisation.
SearchInputs ==
  { [ pc |-> "args", peaks |-> ps, frequency |-> 11664500, pol |-> "H",
      est_symbol_rate |-> 0, search_range |-> 0 ] :
    ps \in { << >> }
           \cup { << Candidate(11663000, 0, sr, 1) >> : sr \in SearchRates }
           \cup { << Candidate(11663000, 1, sr1, 2), Candidate(11666000, 0, sr2, 1) >> :
                  sr1 \in SearchRates, sr2 \in SearchRates } }

\* The walk for the estimate and the value put into props[] for DTV_SEARCH_RANGE.
Fn_SearchRange ==
  /\ fn.pc = "args"
  /\ LET k == PrescanFindPeak(fn.peaks, fn.frequency, fn.pol)
         est_symbol_rate == PrescanEstSymbolRate(fn.peaks, k)
     IN fn' = [ fn EXCEPT !.pc = "done", !.est_symbol_rate = est_symbol_rate,
                          !.search_range = PrescanSearchRange(est_symbol_rate) ]
  /\ UNCHANGED progvars

(***************************************************************************)
(* linuxdvb_blindscan_prescan: the stream type from DTV_MATYPE (DTV_MATYPE defined) *)
(***************************************************************************)
\* The values of DTV_MATYPE read back: the MATYPE byte with bits 6-7 = 00, 01, 10, 11,
\* under no scrambling information, a Root code and a Gold code.
Matypes ==
  { pls + byte : pls \in { 0, 8192 * (2 ^ 8), (1 * (2 ^ 26)) + (8192 * (2 ^ 8)) },
                 byte \in { 0, 63, 64, 128, 191, 192, 255 } }

\* The DTV_STREAM_ID values read back.
GseStreamIds == RawStreamIds \cup { 1 }

GseInputs ==
  { [ pc |-> "args", raw_stream_id |-> raw, matype |-> matype, stream_id |-> 0,
      is_gse |-> FALSE ] : raw \in GseStreamIds, matype \in Matypes }

\* The decoding of the stream id and the classification of the stream.
Fn_Gse ==
  /\ fn.pc = "args"
  /\ LET stream_id == PrescanStreamId(fn.raw_stream_id)
     IN fn' = [ fn EXCEPT !.pc = "done", !.stream_id = stream_id,
                          !.is_gse = PrescanIsGse(stream_id, fn.matype) ]
  /\ UNCHANGED progvars

(***************************************************************************)
(* linuxdvb_blindscan_prescan: the ISI list from DTV_ISI_LIST (DTV_ISI_LIST defined) *)
(***************************************************************************)
\* Bits are numbered from the most significant bit of each byte.
IsiOfBit_MsbFirst(byte_idx, bit) == (byte_idx * 8) + (7 - bit)

\* int isi = byte_idx * 8 + bit
IsiOfBit(byte_idx, bit) == (byte_idx * 8) + bit

\* byte_val & (1 << bit)
BitSet(byte_val, bit) == (byte_val \div (2 ^ bit)) % 2 = 1

\* The two loops, for (byte_idx ...) for (bit ...), visit the bits in the order of
\* byte_idx * 8 + bit; the list gets one element for each set bit, in that order.
IsiList(bitset, bitset_len) ==
  LET visited == { q \in 0..((bitset_len * 8) - 1) : BitSet(bitset[(q \div 8) + 1], q % 8) }
      nth(k) == CHOOSE q \in visited : Cardinality({ r \in visited : r < q }) = k - 1
  IN [ k \in 1..Cardinality(visited) |-> IsiOfBit(nth(k) \div 8, nth(k) % 8) ]

\* What the result carries for a bitset the driver returned: "isi_list" and
\* "multistream" are added only if a bit is set; buffers longer than 32 bytes are cut.
PrescanIsiResult(bitset) ==
  LET bitset_len == IF Len(bitset) > 32 THEN 32 ELSE Len(bitset)
      isi_list == IsiList(bitset, bitset_len)
      isi_count == Len(isi_list)
  IN IF Len(bitset) > 0 /\ isi_count > 0
     THEN [ has_isi_list |-> TRUE, isi_list |-> isi_list, multistream |-> isi_count > 1 ]
     ELSE [ has_isi_list |-> FALSE, isi_list |-> << >>, multistream |-> FALSE ]

\* A bitset of n bytes, all zero but for the values vals at the (0-based) places at.
BitsetWith(n, at, vals) ==
  [ i \in 1..n |-> IF \E j \in 1..Len(at) : at[j] = i - 1
                   THEN vals[CHOOSE j \in 1..Len(at) : at[j] = i - 1] ELSE 0 ]

\* The bitsets the driver returns: every single byte, pairs of bytes, and buffers of 32
\* bytes (and one of 33) with streams in their first and last bytes.
IsiBitsets ==
  { << b >> : b \in 0..255 }
    \cup { << a, b >> : a, b \in { 0, 1, 7, 128, 130, 255 } }
    \cup { BitsetWith(32, << 0, 31 >>, << a, b >>) : a, b \in { 0, 1, 128, 255 } }
    \cup { BitsetWith(32, << 15 >>, << 24 >>), BitsetWith(33, << 1, 32 >>, << 7, 1 >>),
           [ i \in 1..32 |-> 255 ] }

IsiInputs ==
  { [ pc |-> "args", bitset |-> b, has_isi_list |-> FALSE, isi_list |-> << >>,
      multistream |-> FALSE ] : b \in IsiBitsets }

\* The walk of the bitset and the fields added to the result.
Fn_Isi ==
  /\ fn.pc = "args"
  /\ LET r == PrescanIsiResult(fn.bitset)
     IN fn' = [ fn EXCEPT !.pc = "done", !.has_isi_list = r.has_isi_list,
                          !.isi_list = r.isi_list, !.multistream = r.multistream ]
  /\ UNCHANGED progvars

(***************************************************************************)
(* blindscan_peak_find_overlapping_mux on its own                          *)
(***************************************************************************)
\* Networks: the mux of the spec's example; the same with unknown rolloff; a vertical mux
\* in front of a horizontal one whose symbol rate is no multiple of 1000; three
\* horizontal muxes of growing envelope; none.
OverlapNetworks ==
  { << Mux(10930250, 27500000, "35", DVB_POLARISATION_HORIZONTAL, "OK") >>,
    << Mux(10930250, 27500000, "AUTO", DVB_POLARISATION_HORIZONTAL, "FAIL") >>,
    << Mux(10930250, 27500000, "20", DVB_POLARISATION_VERTICAL, "OK"),
       Mux(10930250, 27500999, "35", DVB_POLARISATION_HORIZONTAL, "OK") >>,
    << Mux(10930250, 2000000, "20", DVB_POLARISATION_HORIZONTAL, "OK"),
       Mux(10931000, 27500000, "25", DVB_POLARISATION_HORIZONTAL, "OK"),
       Mux(10930000, 30000000, "35", DVB_POLARISATION_HORIZONTAL, "FAIL") >>,
    << >> }

\* Candidate frequencies: at, inside, on and just outside the envelopes of those muxes.
OverlapOffsets ==
  { 0, 250, 1200, 1201, 16437, 16438, 16500, 16501, 17937, 17938, 18562, 18563, 18564,
    20000, 20250, 20251 }

OverlapFrequencies ==
  { 10930250 + d : d \in OverlapOffsets } \cup { 10930250 - d : d \in OverlapOffsets }

OverlapInputs ==
  { [ pc |-> "args", frequency |-> f, is_v |-> v, muxes |-> n,
      peak |-> Candidate(f, v, 27500000, 1) ] :
    f \in OverlapFrequencies, v \in { 0, 1 }, n \in OverlapNetworks }

\* The candidate the worker links for a peak at fn.frequency on the network fn.muxes.
Fn_Overlap ==
  /\ fn.pc = "args"
  /\ fn' = [ fn EXCEPT !.pc = "done",
                       !.peak = NewPeak([ frequency |-> fn.frequency,
                                          symbol_rate |-> 27500000, snr |-> 1300,
                                          level |-> -3900 ], fn.is_v, fn.muxes, 1) ]
  /\ UNCHANGED progvars

(***************************************************************************)
(* blindscan_worker: the deduplication of the hardware candidates, on its own *)
(***************************************************************************)
\* A hardware candidate of a slot.
DriverPeak(frequency, level) ==
  [ frequency |-> frequency, symbol_rate |-> 22000000, snr |-> 1300, level |-> level ]

\* Frequencies and levels of the candidates: the spec's example and neighbours less
\* and more than 2000 kHz apart.
DedupFrequencies == { 11010000, 11011500, 11012000, 11012100, 11012500, 11013800 }
DedupLevels == { -4100, -4000, -3900 }

\* The candidate lists: up to three candidates of different frequencies, in every order
\* and with every choice of levels.
DedupInputs ==
  { [ pc |-> "args", driver_peaks |-> ps, deduped |-> << >> ] :
    ps \in { << >> }
           \cup { << DriverPeak(f1, l1), DriverPeak(f2, l2) >> :
                  f1 \in DedupFrequencies, f2 \in DedupFrequencies \ { 11010000 },
                  l1 \in { -4000 }, l2 \in { -4100, -3900 } }
           \cup { << DriverPeak(f1, l1), DriverPeak(f2, l2), DriverPeak(f3, l3) >> :
                  f1 \in DedupFrequencies, f2 \in DedupFrequencies,
                  f3 \in DedupFrequencies, l1 \in DedupLevels, l2 \in DedupLevels,
                  l3 \in DedupLevels } }

\* if (num_driver_peaks > 1) { ... }: what driver_peaks holds afterwards.
Fn_Dedup ==
  /\ fn.pc = "args"
  /\ fn' = [ fn EXCEPT !.pc = "done", !.deduped = DedupDriverPeaks(fn.driver_peaks) ]
  /\ UNCHANGED progvars

(***************************************************************************)
(* The software peak detector on its own: spectra of DetectLen samples     *)
(* over a floor, with up to three triangular carriers and the level the    *)
(* spectrum keeps between neighbouring carriers, and the spectrum of 2048  *)
(* samples with one triangular carrier 8000 kHz wide.                      *)
(***************************************************************************)
DetectLen == 120

\* The spectrum of 2048 samples with one carrier.
Bump == [ len |-> 2048, centre |-> 1024, floor |-> -7000, top |-> -4000,
          width_khz |-> 8000 ]

DetectFloor == Bump.floor

DetectStartKhz == 10700000

DetectCentres == << 30, 60, 90 >>

Max2(a, b) == IF a > b THEN a ELSE b

\* Level of sample i: the highest of the floor, the carriers' flanks and the level
\* kept between the carriers on either side of it.
CarrierLevel(i, tops, bridges, slope) ==
  LET flank(k) == tops[k] - slope * Abs(i - DetectCentres[k])
      bridge(k) == IF DetectCentres[k] <= i /\ i <= DetectCentres[k + 1]
                   THEN bridges[k] ELSE DetectFloor
  IN Max2(Max2(Max2(DetectFloor, bridge(1)), bridge(2)),
          Max2(Max2(flank(1), flank(2)), flank(3)))

CarrierSpectrum(n, spacing, tops, bridges, slope) ==
  [ k \in 1..n |-> [ frequency |-> DetectStartKhz + (k - 1) * spacing,
                     level |-> CarrierLevel(k - 1, tops, bridges, slope) ] ]

\* One triangular carrier Bump.width_khz wide at its base, centred at sample
\* Bump.centre of Bump.len samples.
BumpSpectrum(spacing) ==
  [ k \in 1..Bump.len |->
      [ frequency |-> DetectStartKhz + (k - 1) * spacing,
        level |-> LET half == Bump.width_khz \div 2
                      away == Min2(Abs(k - 1 - Bump.centre) * spacing, half)
                  IN Bump.top - ((Bump.top - Bump.floor) * away) \div half ] ]

BumpSpacings == { 100, 250, 500, 1000, 2000, 4000 }

DetectTops == { << p1, p2, p3 >> : p1 \in { -4000, -5000 }, p2 \in { -4000, -5000, -4500 },
                                  p3 \in { -7000, -4000, -5000 } }

DetectBridges == { << b1, b2 >> : b1 \in { -7000, -5400, -5399, -4900, -4400 },
                                 b2 \in { -7000, -5400, -5399, -4900, -4500 } }

DetectSlopes == { 700, 350, 250, 10 }

DetectSpacings == { 500, 1000 }

DetectArgs(points, spacing) ==
  [ pc |-> "args", points |-> points, spacing |-> spacing, candidates |-> << >>,
    merged |-> << >>, remerged |-> << >>, out_peaks |-> << >> ]

DetectInputs ==
  { DetectArgs(CarrierSpectrum(DetectLen, spacing, tops, bridges, slope), spacing) :
    tops \in DetectTops, bridges \in DetectBridges, slope \in DetectSlopes,
    spacing \in DetectSpacings }
  \cup { DetectArgs(BumpSpectrum(spacing), spacing) : spacing \in BumpSpacings }

\* One run of the detector; the candidate lists it builds on the way are kept, and
\* the merge is applied once more to the merged list.
Fn_Detect ==
  /\ fn.pc = "args"
  /\ LET merged == DetectMerged(fn.points, PEAK_THRESHOLD)
     IN fn' = [ fn EXCEPT !.pc = "done",
                          !.candidates = DetectCandidates(fn.points, PEAK_THRESHOLD),
                          !.merged = merged,
                          !.remerged = IF merged = <<>> THEN <<>>
                                       ELSE ValleyMerge(fn.points, Tail(merged),
                                                        <<Head(merged)>>),
                          !.out_peaks = blindscan_detect_peaks(fn.points, MAX_DRIVER_PEAKS,
                                                               PEAK_THRESHOLD) ]
  /\ UNCHANGED progvars

(***************************************************************************)
(* The worker's choice between the hardware candidates and the software    *)
(* detector, on its own: spectra just below, at and above the detector's   *)
(* minimum length, each with one carrier.                                  *)
(***************************************************************************)
SelectLens == { 99, 100, 101, 120 }

SelectInputs ==
  { [ pc |-> "args", peak_detect |-> pd, driver_peaks |-> dp, result |-> << >>,
      points |-> CarrierSpectrum(n, 1000, << top, DetectFloor, DetectFloor >>,
                                 << DetectFloor, DetectFloor >>, slope) ] :
    pd \in { 0, 1, 2 }, n \in SelectLens, top \in { -4000, -5000 },
    slope \in { 700, 350, 250 },
    dp \in { << >>, << DriverPeak(DetectStartKhz + 50000, -4000) >> } }

Fn_Select ==
  /\ fn.pc = "args"
  /\ fn' = [ fn EXCEPT !.pc = "done",
                       !.result = SelectPeaks(fn.peak_detect, fn.points, fn.driver_peaks) ]
  /\ UNCHANGED progvars

(***************************************************************************)
(* The collection of hardware candidates of one acquisition on its own:    *)
(* the driver reports a number of candidates for each Unicable slice, or   *)
(* one number for a direct acquisition.                                    *)
(***************************************************************************)
MaxSlices == 3

RECURSIVE SeqSum(_)
SeqSum(seq) == IF seq = << >> THEN 0 ELSE Head(seq) + SeqSum(Tail(seq))

ReportedCounts == { 0, 1, 300, 512, 600 }

\* n candidates as the driver reports them, IF or driver frequencies ascending.
ReportedCandidates(n, first_freq) ==
  [ k \in 1..n |-> Carrier(first_freq + k, 22000000, 12005, -40005) ]

CollectInputs ==
  { [ pc |-> "args", unicable |-> TRUE, reports |-> rs, step |-> 0,
      driver_peaks |-> << >>, capacity |-> << >> ] :
    rs \in UNION { [ 1..n -> ReportedCounts ] : n \in 1..MaxSlices } }
  \cup { [ pc |-> "args", unicable |-> FALSE, reports |-> << n >>, step |-> 0,
           driver_peaks |-> << >>, capacity |-> << >> ] : n \in ReportedCounts }

\* One pass of the slice loop: the slice's candidates are written behind those
\* collected so far, with the remaining capacity as the limit.
Fn_CollectSlice ==
  /\ fn.pc = "args" /\ fn.unicable
  /\ LET center_freq == 10725000 + (fn.step * step_size)
         max_peaks == MAX_DRIVER_PEAKS - Len(fn.driver_peaks)
         slice == SlicePeaks(ReportedCandidates(fn.reports[fn.step + 1],
                                                SCR_FREQ_KHZ - (step_size \div 2)),
                             center_freq, SCR_FREQ_KHZ, max_peaks)
     IN fn' = [ fn EXCEPT !.driver_peaks = @ \o slice,
                          !.capacity = Append(@, max_peaks),
                          !.step = @ + 1,
                          !.pc = IF fn.step + 1 = Len(fn.reports) THEN "done" ELSE "args" ]
  /\ UNCHANGED progvars

\* A direct acquisition: the candidates are written from the start of the array.
Fn_CollectNeumo ==
  /\ fn.pc = "args" /\ ~fn.unicable
  /\ fn' = [ fn EXCEPT !.driver_peaks =
                          NeumoPeaks(ReportedCandidates(fn.reports[1], 950000), 0,
                                     MAX_DRIVER_PEAKS),
                       !.capacity = << MAX_DRIVER_PEAKS >>,
                       !.step = 1,
                       !.pc = "done" ]
  /\ UNCHANGED progvars

(***************************************************************************)
(* linuxdvb_blindscan_peaks: the visit of one candidate on its own, for    *)
(* candidates of every status and networks of one or two muxes at offsets  *)
(* around the tolerance.                                                   *)
(***************************************************************************)
VisitStatuses == { "pending", "scanning", "locked", "failed", "skipped" }

VisitPeakKhz == 11663000

VisitRates == { 0, 1000000, 27500000, 27500999 }

VisitOffsets == { 0, 999, 1000, 1001, 2999, 3000, 13749, 13750, 13751 }

VisitMuxes ==
  { Mux(VisitPeakKhz + d, sr, "35", pol, res) :
    d \in VisitOffsets \cup { -d0 : d0 \in { 1000, 13750 } }, sr \in VisitRates,
    pol \in { DVB_POLARISATION_HORIZONTAL, DVB_POLARISATION_VERTICAL },
    res \in { "OK", "FAIL" } }

VisitInputs ==
  { [ pc |-> "args",
      peak |-> [ Candidate(VisitPeakKhz, 0, 22000000, 1) EXCEPT !.bp_status = st ],
      muxes |-> muxes, entry |-> [ status |-> "none" ], after |-> "none" ] :
    st \in VisitStatuses,
    muxes \in { << >> } \cup { << dm >> : dm \in VisitMuxes }
              \cup { << Mux(VisitPeakKhz + 500, 27500000, "35",
                            DVB_POLARISATION_HORIZONTAL, "FAIL"), dm >> :
                     dm \in VisitMuxes } }

Fn_PeaksVisit ==
  /\ fn.pc = "args"
  /\ fn' = [ fn EXCEPT !.pc = "done",
                       !.entry = PeaksEntry(fn.peak, fn.muxes),
                       !.after = PeaksVisit(fn.peak, fn.muxes).bp_status ]
  /\ UNCHANGED progvars

(***************************************************************************)
(* Specification                                                           *)
(***************************************************************************)
\* The session with one client that may cancel and release it.
Next ==
  \/ linuxdvb_blindscan_start
  \/ Worker
  \/ linuxdvb_blindscan_cancel
  \/ linuxdvb_blindscan_release("r1")

Spec == Init /\ [][Next]_vars

\* The worker thread is scheduled as long as it can take a step; every driver wait
\* returns within its timeout.
LiveSpec == Spec /\ WF_vars(Worker)

\* Two clients release the session while the process shuts down.
LifeNext ==
  \/ linuxdvb_blindscan_start
  \/ Worker
  \/ \E r \in Releasers : linuxdvb_blindscan_release(r)
  \/ linuxdvb_blindscan_done

LifeSpec == Init /\ [][LifeNext]_vars

\* Clients ask for the status and cancel while another client releases the session.
UseNext ==
  \/ linuxdvb_blindscan_start
  \/ Worker
  \/ linuxdvb_blindscan_release("r1")
  \/ linuxdvb_blindscan_status
  \/ linuxdvb_blindscan_cancel

UseSpec == Init /\ [][UseNext]_vars

\* Clients poll status and peaks while the scan runs; one may cancel.
ReadNext ==
  \/ linuxdvb_blindscan_start
  \/ Worker
  \/ linuxdvb_blindscan_cancel
  \/ linuxdvb_blindscan_status
  \/ linuxdvb_blindscan_peaks

ReadSpec == Init /\ [][ReadNext]_vars

\* A client blind-tunes candidates while the scan runs or after it.
PrescanNext ==
  \/ linuxdvb_blindscan_start
  \/ Worker
  \/ linuxdvb_blindscan_prescan

PrescanSpec == Init /\ [][PrescanNext]_vars

\* A client creates muxes from its selections while a scan of the low band runs (Unicable
\* and horizontal, or direct and vertical) on a network without a horizontal mux there;
\* it polls peaks, and the upstream scanner works through the muxes queued.
CreateInit ==
  /\ cfg \in { Config(FrontendOk, DVB_POLARISATION_HORIZONTAL, <<11600000, 11700000>>, TRUE, 1),
               Config(FrontendOk, DVB_POLARISATION_VERTICAL, <<11600000, 11700000>>, FALSE, 2) }
  /\ mn_muxes = <<MuxOkV, MuxOkHighH>>
  /\ InitSession
  /\ fn = FnNone

CreateNext ==
  \/ linuxdvb_blindscan_start
  \/ Worker
  \/ linuxdvb_blindscan_create_muxes_selected
  \/ Scan_Done
  \/ linuxdvb_blindscan_peaks

CreateSpec == CreateInit /\ [][CreateNext]_vars

\* The worker on its own, nobody cancelling or releasing: ranges below, above, across
\* and on the band split, for each choice of polarisations.
PlanRanges ==
  { <<10700000, 11700000>>, <<11700000, 11800000>>, <<11650000, 11760000>>,
    <<11699999, 11700001>>, <<11700000, 11700001>>, <<11699999, 11700000>> }

\* Unicable ranges of less than one slice, of whole slices, and with a last slice that
\* is or is not re-centred.
PlanUnicableRanges ==
  { <<11600000, 11600000 + width>> :
      width \in { 1, 20000, 25000, 25001, 50000, 50001, 75000, 75001, 80000, 100000 } }
  \cup { <<11650000, 11760000>> }

PlanInit ==
  /\ cfg \in { Config(FrontendOk, pol, range, FALSE, 0) :
                pol \in { POL_BOTH, DVB_POLARISATION_HORIZONTAL, DVB_POLARISATION_VERTICAL },
                range \in PlanRanges }
             \cup { Config(FrontendOk, DVB_POLARISATION_HORIZONTAL, range, TRUE, 0) :
                    range \in PlanUnicableRanges }
  /\ mn_muxes = <<MuxOkV, MuxOkHighH>>
  /\ InitSession
  /\ fn = FnNone

PlanNext ==
  \/ linuxdvb_blindscan_start
  \/ Worker

PlanSpec == PlanInit /\ [][PlanNext]_vars

\* The state of the program while a function is examined on its own.
FnProgram ==
  /\ cfg = Config(FrontendOk, DVB_POLARISATION_HORIZONTAL, <<11600000, 11700000>>, TRUE, 1)
  /\ mn_muxes = << >>
  /\ InitSession

\* The estimate and the search range of a prescan call, for the lists of SearchInputs.
SearchInit == fn \in SearchInputs /\ FnProgram

SearchSpec == SearchInit /\ [][Fn_SearchRange]_vars

\* The stream type prescan reports, for the stream ids and MATYPE values of GseInputs.
GseInit == fn \in GseInputs /\ FnProgram

GseSpec == GseInit /\ [][Fn_Gse]_vars

\* The ISI list prescan reports, for the bitsets of IsiBitsets.
IsiInit == fn \in IsiInputs /\ FnProgram

IsiSpec == IsiInit /\ [][Fn_Isi]_vars

\* The worker's overlap test, for the candidates and networks of OverlapInputs.
OverlapInit == fn \in OverlapInputs /\ FnProgram

OverlapSpec == OverlapInit /\ [][Fn_Overlap]_vars

\* The worker's deduplication, for the candidate lists of DedupInputs.
DedupInit == fn \in DedupInputs /\ FnProgram

DedupSpec == DedupInit /\ [][Fn_Dedup]_vars

DetectInit == fn \in DetectInputs /\ FnProgram

DetectSpec == DetectInit /\ [][Fn_Detect]_vars

SelectInit == fn \in SelectInputs /\ FnProgram

SelectSpec == SelectInit /\ [][Fn_Select]_vars

CollectInit == fn \in CollectInputs /\ FnProgram

CollectSpec == CollectInit /\ [][Fn_CollectSlice \/ Fn_CollectNeumo]_vars

VisitInit == fn \in VisitInputs /\ FnProgram

VisitSpec == VisitInit /\ [][Fn_PeaksVisit]_vars

(***************************************************************************)
(* The commands linuxdvb_blindscan_prescan gives the frontend, one entry   *)
(* of fn.log per LNB/Unicable command sequence and per property            *)
(***************************************************************************)
\* One property of a FE_SET_PROPERTY transaction.
Prop(cmd, arg, data) == [ cmd |-> cmd, arg |-> arg, data |-> data ]

\* One word of the PLS search list: the mode in bits 26-27, the code in bits 8-25.
PlsWord(mode, code) == mode * (2 ^ 26) + code * (2 ^ 8)

pls_codes ==
  << PlsWord(0, 0), PlsWord(0, 1), PlsWord(0, 8), PlsWord(0, 16416),
     PlsWord(1, 0), PlsWord(1, 8192) >>

\* The first transaction: DTV_CLEAR alone.
PrescanClearProps == << Prop("DTV_CLEAR", "", 0) >>

\* A tune request that names the frequency before the search range.
PrescanTuneProps_FrequencyFirst(est_symbol_rate, driver_freq) ==
  << Prop("DTV_ALGORITHM", "ALGORITHM_BLIND", 0),
     Prop("DTV_DELIVERY_SYSTEM", "SYS_AUTO", 0),
     Prop("DTV_FREQUENCY", "", driver_freq),
     Prop("DTV_SEARCH_RANGE", "", PrescanSearchRange(est_symbol_rate)) >>
  \o (IF est_symbol_rate > 0 THEN << Prop("DTV_SYMBOL_RATE", "", est_symbol_rate) >>
      ELSE << >>)
  \o << Prop("DTV_STREAM_ID", "", -1),
        Prop("DTV_PLS_SEARCH_LIST", "pls_codes", Len(pls_codes)),
        Prop("DTV_TUNE", "", 0) >>

\* The second transaction: the blind tune request.
PrescanTuneProps(est_symbol_rate, driver_freq) ==
  << Prop("DTV_ALGORITHM", "ALGORITHM_BLIND", 0),
     Prop("DTV_DELIVERY_SYSTEM", "SYS_AUTO", 0),
     Prop("DTV_SEARCH_RANGE", "", PrescanSearchRange(est_symbol_rate)) >>
  \o (IF est_symbol_rate > 0 THEN << Prop("DTV_SYMBOL_RATE", "", est_symbol_rate) >>
      ELSE << >>)
  \o << Prop("DTV_FREQUENCY", "", driver_freq),
        Prop("DTV_STREAM_ID", "", -1),
        Prop("DTV_PLS_SEARCH_LIST", "pls_codes", Len(pls_codes)),
        Prop("DTV_TUNE", "", 0) >>

\* The satellite configuration element of the session: none, a plain LNB, or one with a
\* Unicable (EN50494) device.
SatconfElements == { "NULL", "lnb", "en50494" }

\* The estimate stored in the matched candidate; -1 stands for no matching candidate.
TuneEstimates == { -1, 0, 2000000, 8000001, 27500000, 45000000 }

TuneFrequencies == { 10700000, 11699999, 11700000, 12750000 }

\* est_symbol_rate as the walk over the candidates leaves it.
TuneEstSymbolRate(estimate) == IF estimate > 0 THEN estimate ELSE 22000000

TuneInputs ==
  [ pc : { "args" }, lse : SatconfElements, fd_open : BOOLEAN,
    frequency : TuneFrequencies, estimate : TuneEstimates,
    log : { << >> }, error : { "" }, tuned : { FALSE }, locked : { FALSE } ]

\* The descriptor check, then the Unicable command or the LNB configuration.
Fn_PrescanLnb ==
  /\ fn.pc = "args"
  /\ IF ~fn.fd_open
     THEN fn' = [ fn EXCEPT !.pc = "done", !.error = "Frontend not available" ]
     ELSE CASE fn.lse = "en50494" ->
                 \E ok \in BOOLEAN :
                   fn' = [ fn EXCEPT !.log = Append(@, Prop("unicable", "", fn.frequency)),
                             !.pc = IF ok THEN "clear" ELSE "done",
                             !.error = IF ok THEN "" ELSE "Unicable command failed" ]
            [] fn.lse = "lnb" ->
                 \E ok \in BOOLEAN :
                   fn' = [ fn EXCEPT
                             !.log = Append(@, Prop("lnb", "",
                                                    blindscan_band_for_freq(fn.frequency))),
                             !.pc = IF ok THEN "clear" ELSE "done",
                             !.error = IF ok THEN "" ELSE "Failed to configure LNB" ]
            [] OTHER -> fn' = [ fn EXCEPT !.pc = "clear" ]
  /\ UNCHANGED progvars

\* ioctl(fd, FE_SET_PROPERTY) with DTV_CLEAR; a failure is only logged.
Fn_PrescanClear ==
  /\ fn.pc = "clear"
  /\ fn' = [ fn EXCEPT !.log = @ \o PrescanClearProps, !.pc = "tune" ]
  /\ UNCHANGED progvars

\* ioctl(fd, FE_SET_PROPERTY) with the blind tune request; a failure ends the call.
Fn_PrescanTune ==
  /\ fn.pc = "tune"
  /\ LET driver_freq ==
           IF fn.lse = "en50494" THEN SCR_FREQ_KHZ
           ELSE fn.frequency - LofOf(blindscan_band_for_freq(fn.frequency))
     IN \E ok \in BOOLEAN :
          fn' = [ fn EXCEPT
                    !.log = @ \o PrescanTuneProps(TuneEstSymbolRate(fn.estimate),
                                                  driver_freq),
                    !.pc = IF ok THEN "wait" ELSE "done",
                    !.tuned = ok,
                    !.error = IF ok THEN "" ELSE "Tune failed" ]
  /\ UNCHANGED progvars

\* The wait for the lock and the read-back, whatever their outcome, then the final
\* DTV_CLEAR, whose result is not looked at.
Fn_PrescanFinish ==
  /\ fn.pc = "wait"
  /\ \E locked \in BOOLEAN :
       fn' = [ fn EXCEPT !.locked = locked, !.log = @ \o PrescanClearProps,
                 !.pc = "done" ]
  /\ UNCHANGED progvars

TuneInit == fn \in TuneInputs /\ FnProgram

TuneSpec ==
  TuneInit /\ [][Fn_PrescanLnb \/ Fn_PrescanClear \/ Fn_PrescanTune \/ Fn_PrescanFinish]_vars

(***************************************************************************)
(* The DAB probe of one mux: mpegts_dab_probe_start on the main thread,    *)
(* dab_probe_raw_cb on the input thread, the completion timer and          *)
(* mpegts_dab_probe_complete on the main thread.  fn holds the mux and     *)
(* the probe context.                                                      *)
(***************************************************************************)
\* The calls of mpegts_dab_probe_start the scan makes for the mux.
MaxStarts == 3

\* The packets after which the scanner reports done at the latest (its time-out of
\* DAB_PROBE_TIMEOUT_MS is looked at in every feed).
MaxFeeds == 3

DabInputs ==
  [ pc : { "dab" },
    has_input : BOOLEAN,                            \* mm_instances has an active input
    mm_dab_scan_result : { "MM_SCAN_OK", "MM_SCAN_FAIL" },
    mm_dab_probe_ctx : { "NULL" }, mm_dab_probe_pending : { 0, 1 },
    complete : { 0 }, scanner : { FALSE }, fullmux_pid : { FALSE },
    complete_timer : { FALSE },                     \* armed
    found_dab : { FALSE },
    main : { "idle" }, cb : { "idle" },             \* positions of the two threads
    feeds : { 0 },
    \* history
    starts : { 0 },                 \* calls of mpegts_dab_probe_start
    begun : { 0 },                  \* calls that found no context on the mux
    continued : { 0 },              \* calls of mpegts_network_scan_mux_done_continue
    arms : { 0 },                   \* mtimer_arm_rel calls of the callback in this probe
    fed_after_complete : { FALSE } ]  \* a feed when ctx->complete was set

\* mpegts_dab_probe_complete without a context: the scan just continues.
ProbeCompleteNoCtx(f) ==
  [ f EXCEPT !.mm_dab_probe_pending = 0, !.continued = @ + 1 ]

\* The context of a probe whose scanner and FULLMUX subscription were set up.
ProbeBegin(f) ==
  [ f EXCEPT !.mm_dab_probe_ctx = "ctx", !.mm_dab_probe_pending = 1,
      !.complete = 0, !.scanner = TRUE, !.fullmux_pid = TRUE, !.complete_timer = FALSE,
      !.feeds = 0, !.arms = 0 ]

\* mpegts_dab_probe_start: nothing while a probe is in progress; without input, context,
\* scanner or subscription the probe is completed at once; else the probe runs.
mpegts_dab_probe_start ==
  /\ fn.pc = "dab"
  /\ fn.main = "idle"
  /\ fn.starts < MaxStarts
  /\ LET f == [ fn EXCEPT !.starts = @ + 1 ]
         g == [ f EXCEPT !.begun = @ + 1 ]
     IN IF fn.mm_dab_probe_ctx # "NULL"
        THEN fn' = f
        ELSE IF ~fn.has_input
        THEN fn' = ProbeCompleteNoCtx(g)
        ELSE \E outcome \in { "no_ctx", "no_scanner", "no_pid", "opened" } :
               fn' = IF outcome = "opened" THEN ProbeBegin(g)
                     ELSE ProbeCompleteNoCtx(g)
  /\ UNCHANGED progvars

\* dab_probe_raw_cb, entry: a packet of the subscription arrives on the input thread.
RawCb_Enter ==
  /\ fn.pc = "dab"
  /\ fn.cb = "idle"
  /\ fn.fullmux_pid
  /\ fn' = IF fn.mm_dab_probe_ctx = "NULL" \/ fn.complete = 1 \/ ~fn.scanner
           THEN fn
           ELSE [ fn EXCEPT !.cb = "feed" ]
  /\ UNCHANGED progvars

\* A callback that arms the timer without marking the probe complete.
RawCbAfterFeed_NoMark(f, done) ==
  IF done
  THEN [ f EXCEPT !.complete_timer = TRUE, !.arms = @ + 1, !.cb = "idle" ]
  ELSE [ f EXCEPT !.cb = "idle" ]

\* The callback after the feed: a scanner that failed or is done marks the probe
\* complete and arms the timer.
RawCbAfterFeed(f, done) ==
  IF done
  THEN [ f EXCEPT !.complete = 1, !.complete_timer = TRUE, !.arms = @ + 1,
           !.cb = "idle" ]
  ELSE [ f EXCEPT !.cb = "idle" ]

\* dab_probe_raw_cb, dvbdab_scanner_feed and dvbdab_scanner_is_done.
RawCb_Feed ==
  /\ fn.pc = "dab"
  /\ fn.cb = "feed"
  /\ LET f == [ fn EXCEPT !.feeds = @ + 1,
                  !.fed_after_complete = (@ \/ fn.complete = 1 \/ ~fn.scanner) ]
     IN \E rc \in { 0, -1 }, is_done \in BOOLEAN :
          /\ f.feeds >= MaxFeeds => is_done
          /\ fn' = RawCbAfterFeed(f, rc # 0 \/ is_done)
  /\ UNCHANGED progvars

\* dab_probe_complete_cb: the timer fires on the main thread; mpegts_dab_probe_complete
\* marks the probe complete, disarms the timer, takes the results and destroys the
\* scanner.
ProbeComplete_Results ==
  /\ fn.pc = "dab"
  /\ fn.main = "idle"
  /\ fn.complete_timer
  /\ IF fn.mm_dab_probe_ctx = "NULL"
     THEN fn' = ProbeCompleteNoCtx([ fn EXCEPT !.complete_timer = FALSE ])
     ELSE \E found_dab \in BOOLEAN :
            fn' = [ fn EXCEPT !.complete = 1, !.complete_timer = FALSE,
                      !.scanner = FALSE, !.found_dab = found_dab,
                      !.mm_dab_scan_result = IF found_dab THEN "MM_SCAN_OK" ELSE @,
                      !.main = "closing" ]
  /\ UNCHANGED progvars

\* mpegts_dab_probe_complete, the rest: the subscription is closed, the context freed,
\* the scan continued.
ProbeComplete_Close ==
  /\ fn.pc = "dab"
  /\ fn.main = "closing"
  /\ fn' = [ fn EXCEPT !.fullmux_pid = FALSE, !.mm_dab_probe_ctx = "NULL",
               !.mm_dab_probe_pending = 0, !.continued = @ + 1, !.found_dab = FALSE,
               !.main = "idle" ]
  /\ UNCHANGED progvars

DabNext ==
  \/ mpegts_dab_probe_start
  \/ RawCb_Enter
  \/ RawCb_Feed
  \/ ProbeComplete_Results
  \/ ProbeComplete_Close

DabInit == fn \in DabInputs /\ FnProgram

DabSpec == DabInit /\ [][DabNext]_vars

\* Packets keep arriving while the subscription is open, both threads are scheduled and
\* an armed timer fires.
DabLiveSpec ==
  DabSpec /\ WF_vars(RawCb_Enter) /\ WF_vars(RawCb_Feed)
          /\ WF_vars(ProbeComplete_Results) /\ WF_vars(ProbeComplete_Close)


(***************************************************************************)
(* Properties                                                              *)
(***************************************************************************)
Terminal == { "complete", "cancelled", "error" }

\* The start-up preconditions of the worker hold.
FrontendReady == cfg.frontend.fd_open /\ cfg.frontend.neumo

\* C1: if the stop flag is set (by cancel or release) before the worker's check of it
\* after the slot loops, and the start-up preconditions held, the session never is in
\* state complete and its state after the check is cancelled; the stop flag, once set,
\* is never cleared.
C1_StopBeforeFinalCheckCancels ==
  /\ [](stop_before_final /\ FrontendReady => bs_state # "complete")
  /\ [](stop_before_final /\ FrontendReady /\ PastFinalCheck => bs_state = "cancelled")
  /\ [][bs_should_stop => bs_should_stop']_vars

\* A stop request arrived in the middle of a scan that had already linked a candidate,
\* and the worker has ended in cancelled.
C1_Witness ==
  /\ stop_before_final /\ FrontendReady /\ w.pc = "exit"
  /\ bs_state = "cancelled" /\ inserted > 0 /\ w.current_scan < total_scans

\* C2: the state only moves forward along idle -> acquiring -> (scanning)* ->
\* {complete, cancelled, error}: no step of the worker, cancel, status or peaks changes
\* a terminal state, leads back to idle, or leads from scanning back to acquiring.
ForwardEdges ==
  { <<"idle", "acquiring">>, <<"acquiring", "scanning">> }
  \cup ({ "acquiring", "scanning" } \X Terminal)

C3_ProgressMonotonic ==
  /\ [](bs_progress \in 0..100)
  /\ [][(bs_state \in { "acquiring", "scanning" }) => (bs_progress' >= bs_progress)]_vars

\* C4: the session memory is not freed while its worker is still executing: when
\* free(bs) has run, the worker thread has returned.
C4_NoFreeWhileWorkerExecutes == bs_alloc = "freed" => w.pc = "exit"

\* C5: over every interleaving of two release calls (and shutdown) the session is
\* unlinked from the registry at most once and freed at most once, and the worker
\* thread is joined by at most one thread.
C5_ReleasedExactlyOnce ==
  /\ remove_count <= 1
  /\ free_count <= 1
  /\ Cardinality({ r \in Releasers : rel[r] \in { "joining", "relock" } }
                 \cup (IF done_pc = "joining" THEN { "done" } ELSE {})) <= 1

\* C6: every started worker eventually is in a terminal state with the running flag
\* cleared, and once the stop flag is set no loop test lets the worker into a further
\* slot or a further Unicable slice.
C6_WorkerTerminates ==
  /\ (w.pc = "start") ~> (bs_state \in Terminal /\ ~bs_thread_running)
  /\ [][bs_should_stop => ~(w'.pc # w.pc /\ w'.pc \in { "slot", "slice" })]_vars

\* The stop flag made the worker leave a Unicable slot with slices still to do.
C6_Witness ==
  bs_should_stop /\ cfg.unicable /\ w.pc = "store" /\ w.step > 0 /\ w.step < w.total_steps

C8_SkippedOnlyIfVerified ==
  \A k \in 1..Len(bs_peaks) :
    bs_peaks[k].bp_status = "skipped"
    => \E m \in 1..Len(mn_muxes) :
         /\ PeakWithinMux(bs_peaks[k].bp_frequency, bs_peaks[k].bp_polarisation,
                          mn_muxes[m])
         /\ mn_muxes[m].scan_result = "OK"

\* C9: in every peaks response a candidate inserted earlier comes before one inserted
\* later.
C9_InsertionOrder ==
  peaks_pc = "reply"
  => \A i, j \in 1..Len(peaks_resp.peaks) :
       i < j => peaks_resp.peaks[i].seq < peaks_resp.peaks[j].seq

\* C10: the count of every peaks response equals the number of its entries, and the
\* peak_count of every status response equals the number of candidates linked when
\* the response was built.
C10_StableSnapshot ==
  /\ peaks_pc = "reply" => peaks_resp.count = Len(peaks_resp.peaks)
  /\ status_pc = "reply" => status_resp.peak_count = status_resp.linked

\* C17: when start is called with end_freq = start_freq the scan plan is empty: the
\* worker enters no slot (no LNB, Unicable or driver transaction), and a worker that
\* was not stopped ends in state complete with 0 peaks.
C17_EmptyRangeEmptyPlan ==
  bs_start_freq = bs_end_freq
  => /\ w.current_scan = 0
     /\ w.pc \notin { "slot", "lnb", "acq_set", "acq_wait", "acq_read", "uc_alloc",
                      "slice_loop", "slice", "slice_acq", "store", "insert", "count" }
     /\ (w.pc = "exit" /\ FrontendReady /\ ~stop_before_final
         => bs_state = "complete" /\ bs_peak_count = 0)

\* C18: progress is 100 only when the state is complete; a session in state cancelled
\* or error has progress at most 50; a worker that runs to its normal exit ends with
\* state complete and progress 100.
C18_ProgressHundredOnlyComplete ==
  /\ bs_progress = 100 => bs_state = "complete"
  /\ bs_state \in { "cancelled", "error" } => bs_progress <= 50
  /\ (PastFinalCheck /\ FrontendReady /\ ~stop_before_final)
     => (bs_state = "complete" /\ bs_progress = 100)

\* A scan of one slot was cancelled in that slot: the progress stays at 50.
C18_Witness ==
  bs_state = "cancelled" /\ bs_progress = 50 /\ w.pc = "exit" /\ total_scans = 1

\* C19: the worker sends exactly one notification, when it has reached its terminal
\* state and not before, and the state in the notification is the session's terminal
\* state.
C19_OneNotificationOfTerminalState ==
  /\ Len(notifications) <= 1
  /\ w.pc = "exit" <=> Len(notifications) = 1
  /\ Len(notifications) = 1
     => (bs_state \in Terminal /\ notifications[1].state = bs_state)

\* C11: a prescan call changes the fields of at most one candidate, the first in the
\* list within 2000 kHz of the requested frequency and with the requested
\* polarisation; it leaves every other candidate, the candidate count, the spectrum
\* buffers, the state and the progress unchanged; without a match it changes no
\* candidate.
C11_PrescanFrame ==
  [][pre' # pre
     => /\ bs_peak_count' = bs_peak_count /\ bs_spectrum' = bs_spectrum
        /\ bs_state' = bs_state /\ bs_progress' = bs_progress
        /\ Len(bs_peaks') = Len(bs_peaks)
        /\ (pre.pc = "idle"
            => LET Requested(c) ==
                     /\ c.bp_frequency - pre'.frequency < 2000
                     /\ pre'.frequency - c.bp_frequency < 2000
                     /\ c.bp_polarisation = IF pre'.pol \in { "H", "h" }
                                            THEN DVB_POLARISATION_HORIZONTAL
                                            ELSE DVB_POLARISATION_VERTICAL
                   first == { k \in 1..Len(bs_peaks) :
                                /\ Requested(bs_peaks[k])
                                /\ \A j \in 1..(k - 1) : ~Requested(bs_peaks[j]) }
               IN IF first = {} THEN pre'.peak = 0
                  ELSE \A k \in first : pre'.peak = bs_peaks[k].seq)
        /\ \A k \in 1..Len(bs_peaks) :
             bs_peaks'[k] # bs_peaks[k] => (pre.peak # 0 /\ bs_peaks[k].seq = pre.peak)
    ]_vars

\* A prescan has written the read-back parameters into the low-band candidate and the
\* high-band candidate, which precedes it in the list, is as the worker linked it.
C11_Witness ==
  /\ pre.pc = "reply" /\ pre.result.has_params /\ Len(bs_peaks) = 2
  /\ bs_peaks[2].seq = pre.peak /\ bs_peaks[2].bp_status = "locked"
  /\ bs_peaks[1].bp_status \in { "pending", "skipped" }
  /\ bs_peaks[1].bp_delsys = "SYS_UNDEFINED"

\* C12: the result has locked = true only if an event whose status holds both the
\* carrier-lock and the sync bit was read before the 12 s budget ran out; events with
\* carrier lock alone never give locked = true; and when the tune was submitted and
\* no such event came the result has locked = false and the matched candidate's
\* status is failed.
C12_LockNeedsCarrierAndSync ==
  /\ [](pre.locked => pre.full_lock_seen)
  /\ [](pre.pc = "reply" /\ pre.result.locked => pre.full_lock_seen)
  /\ [][(pre'.locked /\ ~pre.locked) => pre'.elapsed < 12000]_vars
  /\ [](pre.pc = "reply" /\ pre.waited /\ ~pre.full_lock_seen
        => /\ ~pre.result.locked
           /\ \A k \in 1..Len(bs_peaks) :
                bs_peaks[k].seq = pre.peak => bs_peaks[k].bp_status = "failed")

\* Two events with carrier lock alone were read, the budget ran out, and the matched
\* candidate has been marked failed.
C12_Witness ==
  /\ pre.pc = "reply" /\ pre.waited /\ pre.lock_only_seen /\ ~pre.full_lock_seen
  /\ pre.elapsed = 12000 /\ ~pre.result.locked
  /\ \E k \in 1..Len(bs_peaks) :
       bs_peaks[k].seq = pre.peak /\ bs_peaks[k].bp_status = "failed"

\* C20: for the raw stream id k the driver reports, the stream_id of the result and of
\* the candidate is -1 for k = 511, k - 256 for 256 <= k <= 510 and k for 0 <= k <= 255.
C20_StreamIdDecoding ==
  (pre.pc = "reply" /\ pre.result.has_params)
  => LET k == pre.raw_stream_id
         decoded == CASE k = 511 -> -1
                      [] k >= 256 /\ k <= 510 -> k - 256
                      [] k >= 0 /\ k <= 255 -> k
     IN /\ pre.result.stream_id = decoded
        /\ \A i \in 1..Len(bs_peaks) :
             bs_peaks[i].seq = pre.peak => bs_peaks[i].bp_stream_id = decoded

\* The driver reported 510 for a matched candidate: ISI 254 is returned and stored.
C20_Witness ==
  /\ pre.pc = "reply" /\ pre.result.has_params /\ pre.raw_stream_id = 510
  /\ pre.result.stream_id = 254
  /\ \E i \in 1..Len(bs_peaks) :
       bs_peaks[i].seq = pre.peak /\ bs_peaks[i].bp_stream_id = 254

\* C16: every point of a stored spectrum buffer has its transponder frequency within
\* [start_freq, end_freq] clipped to the band of the buffer's slot, on the direct and
\* on the Unicable path, the driver returning only samples inside the window it was
\* asked for.
C16_SpectrumWithinRange ==
  \A slot \in Slots :
    bs_spectrum[slot] # NULL_SD
    => \A k \in 1..Len(PointsOf(bs_spectrum[slot])) :
         /\ PointsOf(bs_spectrum[slot])[k].frequency >= BandStart(slot[2])
         /\ PointsOf(bs_spectrum[slot])[k].frequency <= BandEnd(slot[2])

\* C15: for a selected candidate that carries no prescan parameters, create builds the
\* tuning record with delivery system DVB-S2, modulation AUTO, FEC AUTO, rolloff AUTO,
\* pilot AUTO, stream_id no-filter and PLS mode ROOT with code 1: when the call replies,
\* every mux it made at the frequency of such an entry carries these values.
C15_DefaultTuning ==
  crt.pc = "reply" =>
    \A e \in 1..Len(crt.selected_peaks), m \in 1..Len(mn_muxes) :
      LET item == crt.selected_peaks[e]
          dm == mn_muxes[m]
      IN ( /\ DOMAIN item \cap { "modulation", "fec", "delsys", "rolloff", "pilot",
                                 "stream_id", "pls_mode", "pls_code" } = {}
           /\ dm.by_create
           /\ dm.freq = ItemGet(item, "frequency", 0) )
         => /\ dm.delsys = "DVBS2"
            /\ dm.modulation = "AUTO"
            /\ dm.fec = "AUTO"
            /\ dm.rolloff = "AUTO"
            /\ dm.pilot = "AUTO"
            /\ dm.stream_id = -1
            /\ dm.pls_mode = "ROOT"
            /\ dm.pls_code = 1

C13_FreshMuxRelabelsPending ==
  [][(peaks_pc = "found" /\ peaks_pc' = "walked") =>
       \A k \in 1..Len(bs_peaks) :
         ( /\ bs_peaks[k].bp_status = "pending"
           /\ \E m \in 1..Len(mn_muxes) :
                /\ mn_muxes[m].by_create
                /\ mn_muxes[m].freq = bs_peaks[k].bp_frequency
                /\ mn_muxes[m].polarisation = bs_peaks[k].bp_polarisation )
         => /\ peaks_list'[k].status = "existing"
            /\ peaks_list'[k].existing
            /\ bs_peaks'[k].bp_status = "skipped"
    ]_vars

\* C13 as amended: the relabelling waits for a verified mux.  Once the mux create made at
\* the candidate's frequency and polarisation has the scan result OK, the next peaks
\* call reports the candidate with status existing (existing=true) and its stored status
\* becomes skipped; while no mux of that polarisation within the reporter's tolerance
\* has the scan result OK, the call reports it with status retry (has_failed_mux=true,
\* existing=false) and its stored status stays pending.
C13_VerifiedMuxRelabelsPending ==
  [][(peaks_pc = "found" /\ peaks_pc' = "walked") =>
       \A k \in 1..Len(bs_peaks) :
         LET peak == bs_peaks[k]
             made == { m \in 1..Len(mn_muxes) :
                         /\ mn_muxes[m].by_create
                         /\ mn_muxes[m].freq = peak.bp_frequency
                         /\ mn_muxes[m].polarisation = peak.bp_polarisation }
             near == { m \in 1..Len(mn_muxes) :
                         LET d == mn_muxes[m].freq - peak.bp_frequency
                             half == mn_muxes[m].symbol_rate \div 2000
                         IN /\ mn_muxes[m].polarisation = peak.bp_polarisation
                            /\ (IF d < 0 THEN -d ELSE d) < (IF half < 1000 THEN 1000 ELSE half) }
         IN (peak.bp_status = "pending" /\ made # {})
            => /\ (\E m \in made : mn_muxes[m].scan_result = "OK")
                  => /\ peaks_list'[k].status = "existing"
                     /\ peaks_list'[k].existing
                     /\ bs_peaks'[k].bp_status = "skipped"
               /\ (\A m \in near : mn_muxes[m].scan_result # "OK")
                  => /\ peaks_list'[k].status = "retry"
                     /\ peaks_list'[k].has_failed_mux
                     /\ ~peaks_list'[k].existing
                     /\ bs_peaks'[k].bp_status = "pending"
    ]_vars

\* A peaks call has walked the list after the scanner verified the mux create made at
\* the pending candidate: the entry says existing and the candidate is skipped.
C13_Witness ==
  /\ peaks_pc = "walked"
  /\ \E k \in 1..Len(bs_peaks) :
       /\ bs_peaks[k].bp_status = "skipped"
       /\ bs_peaks[k].bp_verified_freq = 0
       /\ peaks_list[k].status = "existing"
       /\ peaks_list[k].existing
       /\ \E m \in 1..Len(mn_muxes) :
            /\ mn_muxes[m].by_create
            /\ mn_muxes[m].scan_result = "OK"
            /\ mn_muxes[m].freq = bs_peaks[k].bp_frequency
            /\ mn_muxes[m].polarisation = bs_peaks[k].bp_polarisation

\* C30: the SEARCH_RANGE value that prescan submits equals max(SR_estimate / 2, 8 000 000)
\* for every symbol-rate estimate, where SR_estimate is the estimated symbol rate of the
\* first candidate that matches the request, or 22 000 000 when none matches or its
\* estimate is 0.
C30_SearchRangeIsMax ==
  fn.pc = "done" =>
    LET hits == { k \in 1..Len(fn.peaks) :
                    /\ fn.peaks[k].bp_polarisation = DVB_POLARISATION_HORIZONTAL
                    /\ fn.peaks[k].bp_frequency - fn.frequency < 2000
                    /\ fn.frequency - fn.peaks[k].bp_frequency < 2000 }
        first == CHOOSE k \in hits : \A j \in hits : k <= j
        SR_estimate == IF hits # {} /\ fn.peaks[first].bp_symbol_rate # 0
                       THEN fn.peaks[first].bp_symbol_rate ELSE 22000000
        half == SR_estimate \div 2
    IN /\ fn.est_symbol_rate = SR_estimate
       /\ fn.search_range = IF half > 8000000 THEN half ELSE 8000000

\* C21: prescan reports is_gse = true iff the decoded stream_id is >= 0 and the 32-bit
\* MATYPE value is non-zero and bits 6-7 of its low byte differ from 0b11; a carrier with
\* stream_id = -1 or MATYPE = 0 is never classified as GSE.
C21_GseClassification ==
  fn.pc = "done" =>
    /\ fn.is_gse <=> ( /\ fn.stream_id >= 0
                       /\ fn.matype # 0
                       /\ (fn.matype % 256) < 192 )
    /\ (fn.stream_id = -1 \/ fn.matype = 0) => ~fn.is_gse
    /\ fn.raw_stream_id = 511 => fn.stream_id = -1

\* A multistream carrier whose MATYPE byte says generic continuous stream was classified.
C21_Witness ==
  /\ fn.pc = "done"
  /\ fn.is_gse
  /\ fn.stream_id = 1
  /\ fn.matype % 256 = 128

\* C22: for every ISI bitset of up to 32 bytes, prescan emits exactly the positions of the
\* set bits (byte index x 8 + bit index, least significant bit first) in strictly
\* ascending order, so that re-encoding the emitted list gives back the original bitset,
\* and multistream is true iff the list has more than one element; the bitset 0b00000111
\* gives isi_list [0,1,2] and multistream = true.
C22_IsiListRoundTrip ==
  (fn.pc = "done" /\ Len(fn.bitset) <= 32) =>
    LET emitted == { fn.isi_list[k] : k \in 1..Len(fn.isi_list) }
        bit_value(p, v) == IF p \in emitted THEN v ELSE 0
        encoded == [ i \in 1..Len(fn.bitset) |->
                       LET base == (i - 1) * 8
                       IN bit_value(base, 1) + bit_value(base + 1, 2)
                          + bit_value(base + 2, 4) + bit_value(base + 3, 8)
                          + bit_value(base + 4, 16) + bit_value(base + 5, 32)
                          + bit_value(base + 6, 64) + bit_value(base + 7, 128) ]
    IN /\ \A k \in 1..(Len(fn.isi_list) - 1) : fn.isi_list[k] < fn.isi_list[k + 1]
       /\ emitted \subseteq 0..((Len(fn.bitset) * 8) - 1)
       /\ encoded = fn.bitset
       /\ fn.multistream <=> Len(fn.isi_list) > 1
       /\ fn.has_isi_list <=> Len(fn.isi_list) > 0
       /\ fn.bitset = << 7 >> => (fn.isi_list = << 0, 1, 2 >> /\ fn.multistream)

\* The list of a 32-byte bitset with streams in its first and its last byte was emitted.
C22_Witness ==
  /\ fn.pc = "done"
  /\ Len(fn.bitset) = 32
  /\ fn.isi_list = << 0, 255 >>
  /\ fn.multistream

\* C23 as stated: the worker's overlap test reports an overlap for a candidate (fp, pp)
\* iff some mux of the network has polarisation pp and |fp - fm| <= srm x (1 + rolloff) / 2
\* in kHz, with rolloff 0.35 when the mux rolloff is unknown; for a mux at 10 930 250 kHz
\* with SR 27 500 000 and rolloff 0.35 the half-envelope is 18 562 kHz; a candidate
\* skipped by this test stores verified_freq = fm and verified_sr = srm of the first such
\* mux.  The comparison 200000 x |fp - fm| <= srm x (100 + rolloff%) is made on the
\* thousands and the remainder of srm apart, to stay within 32 bits.
C23_OverlapExactEnvelope ==
  fn.pc = "done" =>
    LET pp == IF fn.is_v = 1 THEN DVB_POLARISATION_VERTICAL ELSE DVB_POLARISATION_HORIZONTAL
        percent(dm) == IF dm.rolloff \in { "5", "10", "15", "20", "25" }
                       THEN 100 + (CHOOSE n \in { 5, 10, 15, 20, 25 } : ToString(n) = dm.rolloff)
                       ELSE 135
        distance(dm) == IF fn.frequency >= dm.freq THEN fn.frequency - dm.freq
                        ELSE dm.freq - fn.frequency
        short(dm) == (200 * distance(dm)) - ((dm.symbol_rate \div 1000) * percent(dm))
        within(dm) == \/ short(dm) <= 0
                      \/ /\ short(dm) <= 200
                         /\ 1000 * short(dm) <= (dm.symbol_rate % 1000) * percent(dm)
        hits == { k \in 1..Len(fn.muxes) : fn.muxes[k].polarisation = pp /\ within(fn.muxes[k]) }
        first == CHOOSE k \in hits : \A j \in hits : k <= j
    IN /\ (fn.peak.bp_status = "skipped") <=> (hits # {})
       /\ hits = {} => fn.peak.bp_status = "pending"
       /\ hits # {} => /\ fn.peak.bp_verified_freq = fn.muxes[first].freq
                       /\ fn.peak.bp_verified_sr = fn.muxes[first].symbol_rate
       /\ (pp = DVB_POLARISATION_HORIZONTAL /\ Len(fn.muxes) = 1
           /\ fn.muxes[1].symbol_rate = 27500000)
          => ((fn.peak.bp_status = "skipped")
                <=> (fn.frequency >= 10930250 - 18562 /\ fn.frequency <= 10930250 + 18562))

\* C23 as amended: the half-envelope is computed in whole numbers, as
\* ((srm / 1000) x (100 + rolloff%)) / 200 with both divisions rounding down; the rest
\* is as stated.
C23_OverlapIntegerEnvelope ==
  fn.pc = "done" =>
    LET pp == IF fn.is_v = 1 THEN DVB_POLARISATION_VERTICAL ELSE DVB_POLARISATION_HORIZONTAL
        percent(dm) == IF dm.rolloff \in { "5", "10", "15", "20", "25" }
                       THEN 100 + (CHOOSE n \in { 5, 10, 15, 20, 25 } : ToString(n) = dm.rolloff)
                       ELSE 135
        distance(dm) == IF fn.frequency >= dm.freq THEN fn.frequency - dm.freq
                        ELSE dm.freq - fn.frequency
        within(dm) == 200 * distance(dm) <= (dm.symbol_rate \div 1000) * percent(dm)
        hits == { k \in 1..Len(fn.muxes) : fn.muxes[k].polarisation = pp /\ within(fn.muxes[k]) }
        first == CHOOSE k \in hits : \A j \in hits : k <= j
    IN /\ (fn.peak.bp_status = "skipped") <=> (hits # {})
       /\ hits = {} => /\ fn.peak.bp_status = "pending"
                       /\ fn.peak.bp_verified_freq = 0
       /\ hits # {} => /\ fn.peak.bp_verified_freq = fn.muxes[first].freq
                       /\ fn.peak.bp_verified_sr = fn.muxes[first].symbol_rate
       /\ (pp = DVB_POLARISATION_HORIZONTAL /\ Len(fn.muxes) = 1
           /\ fn.muxes[1].symbol_rate = 27500000)
          => ((fn.peak.bp_status = "skipped")
                <=> (fn.frequency >= 10930250 - 18562 /\ fn.frequency <= 10930250 + 18562))

\* A candidate on the upper edge of the second mux's envelope, outside the first mux's,
\* was skipped with the second mux's frequency and symbol rate.
C23_Witness ==
  /\ fn.pc = "done"
  /\ Len(fn.muxes) = 3
  /\ fn.frequency = 10931000 + 17187
  /\ fn.peak.bp_status = "skipped"
  /\ fn.peak.bp_verified_freq = 10931000
  /\ fn.peak.bp_verified_sr = 27500000

\* C24: after the worker's deduplication step for a slot, no two remaining hardware
\* candidates differ in frequency by less than 2000 kHz, for every order and every levels
\* of the input candidates; for candidates at 11 012 000, 11 012 500, 11 013 800 with
\* levels -4000, -3900, -4100 exactly the candidate at 11 012 500 remains.
C24_DedupSeparation ==
  fn.pc = "done" =>
    /\ \A i, j \in 1..Len(fn.deduped) :
         i < j => \/ fn.deduped[i].frequency - fn.deduped[j].frequency >= 2000
                  \/ fn.deduped[j].frequency - fn.deduped[i].frequency >= 2000
    /\ fn.driver_peaks = << DriverPeak(11012000, -4000), DriverPeak(11012500, -3900),
                            DriverPeak(11013800, -4100) >>
       => fn.deduped = << DriverPeak(11012500, -3900) >>

\* C25: every peak the software peak detector outputs has a symbol rate between
\* 2 000 000 and 45 000 000 symbols/s inclusive, whatever the -6 dB bandwidth is.
C25_SymbolRateClamped ==
  fn.pc = "done" =>
    \A k \in 1..Len(fn.out_peaks) :
      /\ fn.out_peaks[k].symbol_rate >= 2000000
      /\ fn.out_peaks[k].symbol_rate <= 45000000

\* C26: the valley merge is idempotent: merging the merged list again over the same
\* spectrum gives the same list, and every pair of consecutive surviving candidates
\* has a valley at least min_valley_depth deep.
C26_MergeIdempotent ==
  fn.pc = "done" =>
    /\ fn.remerged = fn.merged
    /\ \A k \in 1..(Len(fn.merged) - 1) :
         ValleyDepth(fn.points, fn.merged[k], fn.merged[k + 1]) >= min_valley_depth

\* A merged list of two or more candidates in which a survivor took the place of a
\* weaker candidate that had been kept next to the survivor before it.
C26_Witness ==
  /\ fn.pc = "done"
  /\ \E k \in 2..Len(fn.merged) : \E j \in 1..Len(fn.candidates) :
       LET c == fn.candidates[j]
       IN /\ fn.merged[k - 1].idx < c.idx /\ c.idx < fn.merged[k].idx
          /\ c.level < fn.merged[k].level
          /\ ValleyDepth(fn.points, fn.merged[k - 1], c) >= min_valley_depth
          /\ ValleyDepth(fn.points, c, fn.merged[k]) < min_valley_depth

\* C27 as stated: for any two peaks of the output, every sample lying between them
\* has level >= min(levels of the two peaks) - 400.
C27_NoSampleBelowBetweenPeaks ==
  fn.pc = "done" =>
    \A k \in 1..Len(fn.out_peaks) : \A l \in (k + 1)..Len(fn.out_peaks) :
      \A i \in 0..(Len(fn.points) - 1) :
        (fn.out_peaks[k].frequency < FreqAt(fn.points, i)
           /\ FreqAt(fn.points, i) < fn.out_peaks[l].frequency)
        => LevelAt(fn.points, i)
             >= Min2(fn.out_peaks[k].level, fn.out_peaks[l].level) - 400

\* C27 amended: for any two peaks kept by the detector, some sample between the two
\* maxima they were detected at has level <= min(levels of the two peaks) - 400.
C27_ValleyBetweenKeptPeaks ==
  fn.pc = "done" =>
    \A k \in 1..Len(fn.merged) : \A l \in (k + 1)..Len(fn.merged) :
      \E i \in (fn.merged[k].idx + 1)..(fn.merged[l].idx - 1) :
        LevelAt(fn.points, i) <= Min2(fn.merged[k].level, fn.merged[l].level) - 400

\* Three peaks kept, the middle one weaker than its neighbours.
C27_Witness ==
  /\ fn.pc = "done"
  /\ Len(fn.merged) = 3 /\ Len(fn.out_peaks) = 3
  /\ fn.merged[2].level < fn.merged[1].level
  /\ fn.merged[2].level < fn.merged[3].level

\* C28: in software-only mode, or in auto mode with no hardware candidates, every
\* spectrum of at least 100 samples, one of exactly 100 included, is run through the
\* detector, and only spectra of fewer than 100 samples are rejected.
C28_DetectorRunsFrom100Samples ==
  (fn.pc = "done"
     /\ (fn.peak_detect = 2 \/ (fn.peak_detect = 0 /\ fn.driver_peaks = << >>)))
  => /\ Len(fn.points) >= 100
          => /\ fn.result # << >>
             /\ fn.result = blindscan_detect_peaks(fn.points, MAX_DRIVER_PEAKS,
                                                    PEAK_THRESHOLD)
     /\ Len(fn.points) < 100 => fn.result = fn.driver_peaks

C34_OneSlotPerPolarisationAndBand ==
  LET pols == (IF cfg.pol \in { -1, 0 } THEN <<0>> ELSE <<>>)
              \o (IF cfg.pol \in { -1, 1 } THEN <<1>> ELSE <<>>)
      bands == (IF cfg.range[1] < 11700000 THEN <<0>> ELSE <<>>)
               \o (IF cfg.range[2] > 11700000 THEN <<1>> ELSE <<>>)
      plan == [ k \in 1..(Len(pols) * Len(bands)) |->
                  << pols[((k - 1) \div Len(bands)) + 1],
                     bands[((k - 1) % Len(bands)) + 1] >> ]
  IN /\ w.current_scan <= Len(plan)
     /\ w.pc = "slot" => << pol_is_v, band >> = plan[w.current_scan + 1]
     /\ w.pc \in { "lnb", "uc_alloc" } => << pol_is_v, band >> = plan[w.current_scan]
     /\ (w.pc = "final" /\ ~bs_should_stop) => w.current_scan = Len(plan)
     /\ (w.pc = "final" /\ cfg.range = <<10700000, 11700000>>)
          => w.current_scan = Len(pols)
     /\ \A f \in { cfg.range[1], cfg.range[2] } :
          blindscan_band_for_freq(f) = 1 <=> f >= 11700000

\* The worker has left the loops of a scan of 10 700 000 .. 11 700 000 on both
\* polarisations after two slots.
C34_Witness ==
  /\ w.pc = "final"
  /\ cfg.range = <<10700000, 11700000>> /\ cfg.pol = POL_BOTH
  /\ w.current_scan = 2

\* C35: for a Unicable band range of non-zero width the planned slices, each covering
\* its centre +/- 25 MHz, together cover the range; a slice is centred at band_start +
\* step x 50 MHz + 25 MHz, and at band_end - 25 MHz exactly when that regular centre
\* lies above band_end.
C35_SlicesCoverBandRange ==
  (cfg.unicable /\ w.pc \in { "slice_loop", "slice", "slice_acq" }) =>
    LET band_start == IF band = 1 /\ cfg.range[1] < 11700000 THEN 11700000
                      ELSE cfg.range[1]
        band_end == IF band = 0 /\ cfg.range[2] > 11700000 THEN 11700000
                    ELSE cfg.range[2]
        regular(k) == band_start + (k * 50000) + 25000
        centre(k) == IF regular(k) > band_end THEN band_end - 25000 ELSE regular(k)
        covered(f) == \E k \in 0..(w.total_steps - 1) :
                        centre(k) - 25000 <= f /\ f <= centre(k) + 25000
    IN /\ w.pc = "slice_acq" => w.center_freq = centre(w.step)
       /\ band_end > band_start
            => /\ covered(band_start)
               /\ covered(band_end)
               /\ \A k \in 0..(w.total_steps - 1) :
                    centre(k) + 25000 < band_end => covered(centre(k) + 25001)

\* The second slice of the high band of 11 650 000 .. 11 760 000: its regular centre
\* 11 775 000 lies above the end and it is acquired around 11 735 000.
C35_Witness ==
  /\ cfg.unicable /\ w.pc = "slice_acq" /\ band = 1 /\ w.step = 1
  /\ cfg.range = <<11650000, 11760000>>
  /\ w.center_freq = 11735000

\* C36: during an acquisition the number of collected hardware candidates never exceeds
\* 512 and nothing is written past the end of the 512-entry array, whatever the driver
\* reports per slice, counts above the remaining capacity and a remaining capacity of 0
\* included.
C36_CandidatesWithinArray ==
  /\ Len(fn.driver_peaks) <= 512
  /\ \A k \in 1..fn.step :
       /\ fn.capacity[k] >= 0
       \* a slice that found no room has left no candidate of its 50 MHz in the array
       /\ (fn.unicable /\ fn.capacity[k] = 0)
            => \A j \in 1..Len(fn.driver_peaks) :
                 fn.driver_peaks[j].frequency \div 50000 # (10700000 \div 50000) + (k - 1)
  /\ fn.pc = "done" =>
       Len(fn.driver_peaks) = Min2(512, SeqSum(fn.reports))

\* A slice reported more candidates than the array had room for, and a later slice
\* found no room at all.
C36_Witness ==
  /\ fn.pc = "done" /\ fn.unicable
  /\ fn.reports = << 300, 600, 1 >>
  /\ fn.capacity = << 512, 212, 0 >>
  /\ Len(fn.driver_peaks) = 512

\* C37 as stated: for a pending candidate a mux matches iff the polarisations are equal
\* and |fm - fp| <= max(srm / 2000, 1000); the entry is "existing" and the candidate is
\* stored skipped iff a matching mux is scanned OK, otherwise the entry is "retry" with
\* has_failed_mux iff some mux matches, and the candidate stays pending; a candidate
\* that is not pending is not re-evaluated.
C37_PeaksToleranceInclusive ==
  fn.pc = "done" =>
    LET max_offset(dm) == IF dm.symbol_rate \div 2000 > 1000
                          THEN dm.symbol_rate \div 2000 ELSE 1000
        matching(dm) == /\ dm.polarisation = fn.peak.bp_polarisation
                        /\ Abs(dm.freq - fn.peak.bp_frequency) <= max_offset(dm)
        some_ok == \E k \in 1..Len(fn.muxes) :
                      matching(fn.muxes[k]) /\ fn.muxes[k].scan_result = "OK"
        some == \E k \in 1..Len(fn.muxes) : matching(fn.muxes[k])
    IN IF fn.peak.bp_status = "pending"
       THEN /\ (fn.entry.status = "existing" /\ fn.entry.existing /\ fn.after = "skipped")
                 <=> some_ok
            /\ ~some_ok => /\ fn.after = "pending"
                           /\ fn.entry.status = (IF some THEN "retry" ELSE "pending")
                           /\ fn.entry.has_failed_mux <=> some
       ELSE /\ fn.after = fn.peak.bp_status
            /\ ~fn.entry.existing /\ ~fn.entry.has_failed_mux
            /\ fn.entry.status = (IF fn.after = "skipped" THEN "existing" ELSE fn.after)

\* C37 amended: the same with a mux matching iff the polarisations are equal and
\* |fm - fp| < max_offset, max_offset being max(srm / 2000, 1000) and 3000 for srm = 0.
C37_PeaksToleranceExclusive ==
  fn.pc = "done" =>
    LET max_offset(dm) == IF dm.symbol_rate = 0 THEN 3000
                          ELSE IF dm.symbol_rate \div 2000 > 1000
                               THEN dm.symbol_rate \div 2000 ELSE 1000
        matching(dm) == /\ dm.polarisation = fn.peak.bp_polarisation
                        /\ Abs(dm.freq - fn.peak.bp_frequency) < max_offset(dm)
        some_ok == \E k \in 1..Len(fn.muxes) :
                      matching(fn.muxes[k]) /\ fn.muxes[k].scan_result = "OK"
        some == \E k \in 1..Len(fn.muxes) : matching(fn.muxes[k])
    IN IF fn.peak.bp_status = "pending"
       THEN /\ (fn.entry.status = "existing" /\ fn.entry.existing /\ fn.after = "skipped")
                 <=> some_ok
            /\ ~some_ok => /\ fn.after = "pending"
                           /\ fn.entry.status = (IF some THEN "retry" ELSE "pending")
                           /\ fn.entry.has_failed_mux <=> some
       ELSE /\ fn.after = fn.peak.bp_status
            /\ ~fn.entry.existing /\ ~fn.entry.has_failed_mux
            /\ fn.entry.status = (IF fn.after = "skipped" THEN "existing" ELSE fn.after)

\* A pending candidate next to a failed mux and 13 749 kHz from a verified mux of
\* 27.5 Msym/s is reported existing and stored skipped.
C37_Witness ==
  /\ fn.pc = "done" /\ fn.peak.bp_status = "pending" /\ Len(fn.muxes) = 2
  /\ fn.muxes[2].freq = VisitPeakKhz + 13749 /\ fn.muxes[2].symbol_rate = 27500000
  /\ fn.muxes[2].scan_result = "OK"
  /\ fn.muxes[2].polarisation = DVB_POLARISATION_HORIZONTAL
  /\ fn.entry.status = "existing" /\ fn.after = "skipped"

\* C38: the peak-detection mode decides the origin of the candidates to insert: in
\* software-only mode none of them is a hardware-reported one, whatever the spectrum
\* size; in hardware-only mode they are the hardware candidates; in auto mode they are
\* the hardware candidates unless there are none.
C38_ModeDecidesOrigin ==
  fn.pc = "done" =>
    /\ fn.peak_detect = 2
         => \A k \in 1..Len(fn.result) : \A j \in 1..Len(fn.driver_peaks) :
              fn.result[k] # fn.driver_peaks[j]
    /\ fn.peak_detect = 1 => fn.result = fn.driver_peaks
    /\ (fn.peak_detect = 0 /\ fn.driver_peaks # << >>) => fn.result = fn.driver_peaks

\* C39: when a prescan that matched a candidate returns, the candidate is locked iff
\* the response has locked = true, and failed iff locked = false is returned after the
\* tune was submitted; a prescan that ends before the tune is accepted returns
\* locked = false with an error text and has left the candidate as it was.
C39_StatusFollowsResponse ==
  (pre.pc = "reply" /\ PrescanPeakIndex # 0) =>
    LET peak == bs_peaks[PrescanPeakIndex]
    IN /\ peak.bp_status = "locked" <=> pre.result.locked
       /\ peak.bp_status = "failed" <=> (~pre.result.locked /\ pre.waited)
       /\ ~pre.waited => /\ ~pre.result.locked
                         /\ pre.result.error # ""
                         /\ peak.bp_status \in { "pending", "skipped" }
                         /\ peak.bp_delsys = "SYS_UNDEFINED"


\* The commands of the log from position from on, by name.
LogCmds(log, from) == [ k \in 1..(Len(log) - from + 1) |-> log[from + k - 1].cmd ]

\* The position of the first DTV_CLEAR in the log, 0 if there is none.
FirstClear(log) ==
  LET at == { k \in 1..Len(log) : log[k].cmd = "DTV_CLEAR" }
  IN IF at = {} THEN 0 ELSE CHOOSE k \in at : \A j \in at : k <= j

\* C31: in every prescan that reaches the tune the driver has received, from the first
\* DTV_CLEAR on, CLEAR, ALGORITHM = BLIND, DELIVERY_SYSTEM = AUTO, SEARCH_RANGE,
\* SYMBOL_RATE, FREQUENCY, STREAM_ID = -1, PLS_SEARCH_LIST, TUNE in this order, with the
\* search range before the frequency; every LNB or Unicable command is before the first
\* CLEAR, and is there whenever the session has a satellite configuration; and when the
\* tune was accepted and prescan is about to return, the last command is one more CLEAR.
C31_TuneSequenceOrder ==
  (fn.pc \in { "wait", "done" } /\ fn.error \in { "", "Tune failed" } /\ fn.fd_open) =>
    LET c == FirstClear(fn.log)
        props == [ k \in 1..9 |-> fn.log[c + k - 1] ]
        pos(name) == CHOOSE k \in 1..9 : props[k].cmd = name
    IN /\ c # 0 /\ Len(fn.log) >= c + 8
       /\ LogCmds(props, 1) = << "DTV_CLEAR", "DTV_ALGORITHM", "DTV_DELIVERY_SYSTEM",
                                 "DTV_SEARCH_RANGE", "DTV_SYMBOL_RATE", "DTV_FREQUENCY",
                                 "DTV_STREAM_ID", "DTV_PLS_SEARCH_LIST", "DTV_TUNE" >>
       /\ props[2].arg = "ALGORITHM_BLIND"
       /\ props[3].arg = "SYS_AUTO"
       /\ props[7].data = -1
       /\ pos("DTV_SEARCH_RANGE") < pos("DTV_FREQUENCY")
       /\ \A k \in 1..Len(fn.log) : fn.log[k].cmd \in { "lnb", "unicable" } => k < c
       /\ fn.lse # "NULL" => c = 2 /\ fn.log[1].cmd = (IF fn.lse = "en50494" THEN "unicable"
                                                        ELSE "lnb")
       /\ (fn.pc = "done" /\ fn.tuned) =>
            /\ Len(fn.log) = c + 9
            /\ fn.log[c + 9].cmd = "DTV_CLEAR"

\* A prescan through a Unicable device whose tune was accepted has returned.
C31_Witness ==
  /\ fn.pc = "done" /\ fn.tuned /\ fn.lse = "en50494"
  /\ Len(fn.log) = 11


\* The worker has sent the LNB or Unicable commands of a slot or slice and its spectrum
\* acquisition (DTV_CLEAR, the scan properties, the wait, the read) is not finished.
WorkerAcquiring == w.pc \in { "acq_set", "acq_wait", "acq_read", "slice_acq" }

\* A prescan has sent its LNB or Unicable commands and its tune request and has not yet
\* read the outcome and cleared the frontend.
PrescanTuning == pre.pc \in { "wait", "read" }

\* C32: the frontend is driven by one activity at a time: while the worker is inside a
\* slot or slice acquisition, no prescan of the same session has its own LNB commands and
\* tune transaction under way on that frontend.
C32_FrontendOneActivity == ~(WorkerAcquiring /\ PrescanTuning)


\* C33: no API call reads or writes the session after a concurrent release has freed it:
\* between the lookup of an operation and its last access the session stays allocated.
C33_NoApiUseAfterRelease == ~api_uaf


\* A probe is in progress: the mux has a probe context.
DabProbing == fn.mm_dab_probe_ctx # "NULL"

=============================================================================
